---- MODULE Spec2Model ----
(***************************************************************************)
(* Category-membership reconciliation, invalid-name scan and activity      *)
(* aggregation of cat-admin.                                               *)
(*                                                                         *)
(* Strings are sequences of one-character strings, so that trim,           *)
(* toLowerCase, split and ENS normalization are computed character by      *)
(* character.  The database is PostgreSQL at READ COMMITTED (the pool in   *)
(* lib/db.ts sets no isolation level): a transaction's writes are pending  *)
(* until COMMIT, a statement that meets another transaction's pending      *)
(* write on the same row waits for it.                                     *)
(*                                                                         *)
(* DATABASE_URL is taken to be set, so getPool() does not throw.  The      *)
(* added_at column of club_memberships is carried through by the code      *)
(* untouched and is left out of the rows.                                  *)
(***************************************************************************)
EXTENDS Integers, Sequences, FiniteSets, TLC

\* ------------------------------------------------------------------ bounds

\* Number of request slots that may run concurrently (each runs one request).
NReq == 2
\* Longest names array of a request under the sequential specification (the
\* arrays around the size cap apart).
MaxBatch == 2
\* Longest raw page handed to the Activity Aggregator.
MaxPage == 3

\* ------------------------------------------------------- program constants

MAX_NAMES_PER_REQUEST == 1000
\* Grouping window of the aggregator, in milliseconds.
GROUP_WINDOW_MS == 1000
\* Minimum label length of a .eth name, in characters.
MIN_LABEL_LENGTH == 3

\* null for a string-valued expression: a one-element tuple no string equals.
NULL == <<"null">>
\* An absent number (a JSON field that is not there, a counter not yet set).
NoCount == -1

\* ----------------------------------------------------------------- strings

Range(f) == {f[k] : k \in DOMAIN f}

UpperChars == {"A", "B"}
SpaceChars == {" "}
\* Characters ens_normalize rejects (space, punctuation outside the ENS grammar).
DisallowedChars == {" ", "!"}

\* A mapping of upper case that is not settled after one step.
LowerCharInSteps(c) ==
  CASE c = "A" -> "B"
    [] c = "B" -> "b"
    [] OTHER -> c

\* String.prototype.toLowerCase on one character.
LowerChar(c) ==
  CASE c = "A" -> "a"
    [] c = "B" -> "b"
    [] OTHER -> c

\* String.prototype.toLowerCase, and SQL LOWER().
ToLowerCase(s) == [k \in 1..Len(s) |-> LowerChar(s[k])]

RECURSIVE TrimStart(_)
TrimStart(s) ==
  IF s = <<>> THEN <<>>
  ELSE IF Head(s) \in SpaceChars THEN TrimStart(Tail(s))
  ELSE s

RECURSIVE TrimEnd(_)
TrimEnd(s) ==
  IF s = <<>> THEN <<>>
  ELSE IF s[Len(s)] \in SpaceChars THEN TrimEnd(SubSeq(s, 1, Len(s) - 1))
  ELSE s

\* String.prototype.trim.
Trim(s) == TrimEnd(TrimStart(s))

\* The labels of a name: the pieces between the "." separators.
RECURSIVE SplitOn(_, _)
SplitOn(s, sep) ==
  IF \A k \in 1..Len(s) : s[k] # sep THEN <<s>>
  ELSE LET p == CHOOSE k \in 1..Len(s) : s[k] = sep /\ \A j \in 1..(k - 1) : s[j] # sep
       IN <<SubSeq(s, 1, p - 1)>> \o SplitOn(SubSeq(s, p + 1, Len(s)), sep)

\* String.prototype.endsWith.
EndsWith(s, suffix) ==
  /\ Len(s) >= Len(suffix)
  /\ SubSeq(s, Len(s) - Len(suffix) + 1, Len(s)) = suffix

\* ens_normalize of @adraffy/ens-normalize on the model's alphabet: a
\* disallowed character or an empty label throws (modelled as NULL), ASCII
\* upper case is mapped to lower case, everything else is kept.
EnsNormalize(s) ==
  IF s = <<>> THEN <<>>
  ELSE IF \E k \in 1..Len(s) : s[k] \in DisallowedChars THEN NULL
  ELSE IF <<>> \in Range(SplitOn(s, ".")) THEN NULL
  ELSE ToLowerCase(s)

\* normalizeEnsName: null for a falsy or blank name and when ens_normalize throws.
normalizeEnsName(name) ==
  IF name = <<>> THEN NULL
  ELSE LET trimmed == Trim(name)
       IN IF Len(trimmed) = 0 THEN NULL ELSE EnsNormalize(trimmed)

\* ------------------------------------------------------------------- names

DotEth == <<".", "e", "t", "h">>
nAbc == <<"a", "b", "c">> \o DotEth
nAbcU == <<"A", "b", "c">> \o DotEth
nAb == <<"a", "b">> \o DotEth
nBad == <<"a", "!">> \o DotEth
nSpAbc == <<" ">> \o nAbc
nBlank == <<" ">>
\* A name under another TLD than .eth.
nAbcCom == <<"a", "b", "c", ".", "c", "o", "m">>
\* A short name without a TLD.
nAbBare == <<"a", "b">>
nEmpty == <<>>

\* Category names.
cC1 == <<"c", "1">>
cZZ == <<"z", "z">>

\* ------------------------------------------------------------------- state

VARIABLES
  \* ens_names: the name directory, in table order (read-only for the app).
  directory,
  \* clubs: the names of the existing categories.
  clubs,
  \* club_memberships: the committed rows <<club_name, ens_name>>.
  memberships,
  \* clubs.member_count (exposed as name_count), committed value per category.
  member_count,
  \* club_memberships as it was before the first request (history).
  memberships0,
  \* The request slots: input, handler position, locals, open transaction,
  \* response.
  req,
  \* Activity Aggregator: which component runs, its raw page, the loop index,
  \* processedIds and the grouped output.
  variant, rawEntries, cursor, processedIds, grouped,
  \* clubs: display_name, description and classifications of each category.
  clubRows,
  \* clubs_audit_log as the activity query reads it, newest entry first.
  \* Its rows are written by database triggers, not by the application.
  auditLog,
  \* The request to the category, activity and members routes: input, handler
  \* position, response.
  adm,
  \* The writing statements those routes have committed, each with the value
  \* of app.actor_address in its transaction (history).
  stmts,
  \* lib/rate-limit.ts: the clock, lastCleanup, the store, and the calls made
  \* with their results (history).
  rl,
  \* middleware.ts: the last request and its response, and the requests let
  \* through per client (history).
  mw,
  \* The browser: the token cookie, the connected wallet and useAuth's state.
  jar,
  \* A name and the results of normalizing it once and twice.
  norm,
  \* The bulk add form: the textarea, parsedNames and the request it sent.
  form,
  \* A call of a transaction helper: its position, the pooled client and the
  \* outcome.
  tx

dbVars == <<directory, clubs, memberships, member_count, memberships0, req,
            clubRows, auditLog, adm, stmts, rl, mw, jar, norm, form, tx>>
aggVars == <<variant, rawEntries, cursor, processedIds, grouped>>
catVars == <<clubRows, auditLog, adm, stmts>>
libVars == <<rl, mw, jar, norm, form, tx>>
vars == <<directory, clubs, memberships, member_count, memberships0, req,
          variant, rawEntries, cursor, processedIds, grouped, clubRows, auditLog,
          adm, stmts, rl, mw, jar, norm, form, tx>>

Reqs == 1..NReq



\* The characters in byte order, for ORDER BY over the model's names.
Alphabet ==
  <<" ", "!", ",", ".", "0", "1", ":", "A", "B", "_",
    "a", "b", "c", "e", "h", "m", "o", "t", "x", "z">>

CharCode(c) == CHOOSE k \in 1..Len(Alphabet) : Alphabet[k] = c

\* a < b in byte order.
RECURSIVE StringLess(_, _)
StringLess(a, b) ==
  IF b = <<>> THEN FALSE
  ELSE IF a = <<>> THEN TRUE
  ELSE IF Head(a) # Head(b) THEN CharCode(Head(a)) < CharCode(Head(b))
  ELSE StringLess(Tail(a), Tail(b))

\* The strings of a set in ascending order.
RECURSIVE SortedSeq(_)
SortedSeq(S) ==
  IF S = {} THEN <<>>
  ELSE LET least == CHOOSE x \in S : \A y \in S \ {x} : StringLess(x, y)
       IN <<least>> \o SortedSeq(S \ {least})

\* -------------------------------------------------------------------- auth

NoToken == "none"
aAdmin == <<"0", "x", "A">>
aAdmin2 == <<"0", "x", "b">>
aUser == <<"0", "x", "c">>

\* process.env.ADMIN_ADDRESSES
ADMIN_ADDRESSES == <<"0", "x", "a", ",", " ", "0", "x", "B">>

parseAdminAddresses ==
  LET items == SplitOn(ADMIN_ADDRESSES, ",")
      cleaned == [k \in 1..Len(items) |-> ToLowerCase(Trim(items[k]))]
  IN SelectSeq(cleaned, LAMBDA a : a # <<>>)

isAdmin(address) == ToLowerCase(address) \in Range(parseAdminAddresses)

\* The answer of the Grails API's /auth/me for a bearer token; null when the
\* call fails or the token is not a session.
verifyTokenAndGetAddress(token) ==
  CASE token = "tokAdmin" -> aAdmin
    [] token = "tokAdmin2" -> aAdmin2
    [] token = "tokUser" -> aUser
    [] OTHER -> NULL

\* verifyAdmin without the allow-list: every address that resolves is an admin.
verifyAdminAnyAddress(token) ==
  LET address == verifyTokenAndGetAddress(token)
  IN IF address = NULL THEN [isAdmin |-> FALSE, address |-> NULL]
     ELSE [isAdmin |-> TRUE, address |-> address]

verifyAdmin(token) ==
  LET address == verifyTokenAndGetAddress(token)
  IN IF address = NULL THEN [isAdmin |-> FALSE, address |-> NULL]
     ELSE [isAdmin |-> isAdmin(address), address |-> address]

\* --------------------------------------------------------------- responses

\* A JSON response: its HTTP status and the body's fields; "fields" names the
\* keys the body holds.
BaseResp ==
  [status |-> 0, error |-> "", success |-> "absent",
   added |-> NoCount, skipped |-> NoCount, removed |-> NoCount,
   invalidNames |-> <<>>, invalidFormat |-> <<>>, notInDatabase |-> <<>>,
   totalScanned |-> NoCount, invalidCount |-> NoCount, scanInvalid |-> <<>>,
   fields |-> {}]

ErrorResp(status, error) ==
  [BaseResp EXCEPT !.status = status, !.error = error, !.fields = {"error"}]

ErrMaxNames == "Maximum 1000 names per request"
ErrNoValid == "No valid ENS names provided"
ErrSomeInvalid == "Some ENS names are invalid or not found in database"

\* ---------------------------------------------------------------- requests

IdleReq ==
  [pc |-> "idle", kind |-> "none", cat |-> <<>>, names |-> <<>>, token |-> NoToken,
   address |-> NULL, normalizedNames |-> <<>>, invalidEnsNames |-> <<>>,
   dbNames |-> <<>>, idx |-> 0, added |-> 0, skipped |-> 0, removed |-> 0,
   actor |-> NULL, ins |-> {}, del |-> {}, cnt |-> NoCount,
   dbCalls |-> 0, wrote |-> {}, erased |-> {}, resp |-> BaseResp]

Finish(q, resp) == [q EXCEPT !.pc = "done", !.resp = resp]


\* names.map(normalizeEnsName), nulls included.
NormalizeAll(names) == [k \in 1..Len(names) |-> normalizeEnsName(names[k])]

\* TooManyNames off by one: an array of 1001 names passes.
TooManyNamesOffByOne(names) == Len(names) > MAX_NAMES_PER_REQUEST + 1

\* The names array is too long for one request.
TooManyNames(names) == Len(names) > MAX_NAMES_PER_REQUEST

\* POST members, up to the first database call: session, admin check, body
\* checks, size cap, normalization.
PostStart(q) ==
  LET auth == verifyAdmin(q.token)
      invalidEnsNames == SelectSeq(q.names, LAMBDA n : normalizeEnsName(n) = NULL)
      normalizedNames == SelectSeq(NormalizeAll(q.names), LAMBDA n : n # NULL)
  IN IF q.token = NoToken THEN Finish(q, ErrorResp(401, "Unauthorized"))
     ELSE IF ~auth.isAdmin \/ auth.address = NULL
       THEN Finish(q, ErrorResp(403, "Forbidden"))
     ELSE IF Len(q.names) = 0
       THEN Finish(q, ErrorResp(400, "Names array is required"))
     ELSE IF TooManyNames(q.names)
       THEN Finish(q, ErrorResp(400, ErrMaxNames))
     ELSE IF Len(normalizedNames) = 0
       THEN Finish([q EXCEPT !.address = auth.address,
                             !.invalidEnsNames = invalidEnsNames],
                   [ErrorResp(400, ErrNoValid) EXCEPT
                      !.invalidNames = invalidEnsNames,
                      !.fields = {"error", "invalidNames"}])
     ELSE [q EXCEPT !.pc = "checkCat", !.address = auth.address,
                    !.normalizedNames = normalizedNames,
                    !.invalidEnsNames = invalidEnsNames]

\* DELETE members, up to the first database call.
DeleteStart(q) ==
  LET auth == verifyAdmin(q.token)
      normalizedNames == SelectSeq(NormalizeAll(q.names), LAMBDA n : n # NULL)
  IN IF q.token = NoToken THEN Finish(q, ErrorResp(401, "Unauthorized"))
     ELSE IF ~auth.isAdmin \/ auth.address = NULL
       THEN Finish(q, ErrorResp(403, "Forbidden"))
     ELSE IF Len(q.names) = 0
       THEN Finish(q, ErrorResp(400, "Names array is required"))
     ELSE IF TooManyNames(q.names)
       THEN Finish(q, ErrorResp(400, ErrMaxNames))
     ELSE IF Len(normalizedNames) = 0
       THEN Finish([q EXCEPT !.address = auth.address], ErrorResp(400, ErrNoValid))
     ELSE [q EXCEPT !.pc = "checkCat", !.address = auth.address,
                    !.normalizedNames = normalizedNames]

\* GET invalid-names, up to the first database call.
GetStart(q) ==
  LET auth == verifyAdmin(q.token)
  IN IF q.token = NoToken THEN Finish(q, ErrorResp(401, "Unauthorized"))
     ELSE IF ~auth.isAdmin THEN Finish(q, ErrorResp(403, "Forbidden"))
     ELSE [q EXCEPT !.pc = "checkCat", !.address = auth.address]

\* The handler runs up to its first await on the database.
Start(r) ==
  /\ req[r].pc = "start"
  /\ req' = [req EXCEPT ![r] =
       CASE req[r].kind = "add" -> PostStart(req[r])
         [] req[r].kind = "remove" -> DeleteStart(req[r])
         [] OTHER -> GetStart(req[r])]
  /\ UNCHANGED <<directory, clubs, memberships, member_count, memberships0>>
  /\ UNCHANGED aggVars
  /\ UNCHANGED libVars
  /\ UNCHANGED catVars

\* CheckCategory without the test of the row: the handler goes on for a
\* category that does not exist.
CheckCategoryAnyName(r) ==
  /\ req[r].pc = "checkCat"
  /\ req' = [req EXCEPT ![r] =
       [@ EXCEPT !.dbCalls = @ + 1,
                 !.pc = CASE req[r].kind = "add" -> "lookup"
                          [] req[r].kind = "remove" -> "begin"
                          [] OTHER -> "select"]]
  /\ UNCHANGED <<directory, clubs, memberships, member_count, memberships0>>
  /\ UNCHANGED aggVars
  /\ UNCHANGED libVars
  /\ UNCHANGED catVars

\* SELECT name FROM clubs WHERE name = $1, and the 404 when no row comes back.
CheckCategory(r) ==
  /\ req[r].pc = "checkCat"
  /\ LET q == [req[r] EXCEPT !.dbCalls = @ + 1]
     IN req' = [req EXCEPT ![r] =
          IF q.cat \notin clubs
            THEN Finish(q, ErrorResp(404, "Category not found"))
          ELSE [q EXCEPT !.pc = CASE q.kind = "add" -> "lookup"
                                  [] q.kind = "remove" -> "begin"
                                  [] OTHER -> "select"]]
  /\ UNCHANGED <<directory, clubs, memberships, member_count, memberships0>>
  /\ UNCHANGED aggVars
  /\ UNCHANGED libVars
  /\ UNCHANGED catVars

\* SELECT name FROM ens_names WHERE LOWER(name) IN (...): the directory rows
\* whose lower-cased name is one of the lower-cased normalized names.
ValidNames(normalizedNames) ==
  LET wanted == {ToLowerCase(n) : n \in Range(normalizedNames)}
  IN SelectSeq(directory, LAMBDA d : ToLowerCase(d) \in wanted)

\* GateOpen without the check: the valid names of the batch go on.
GateOpenAlways(allInvalidNames) == TRUE

\* The validity gate: the add goes on only when no name is invalid.
GateOpen(allInvalidNames) == Len(allInvalidNames) = 0

\* POST members: the directory lookup and the all-or-nothing validity gate.
Lookup(r) ==
  /\ req[r].pc = "lookup"
  /\ LET q == [req[r] EXCEPT !.dbCalls = @ + 1]
         validNames == ValidNames(q.normalizedNames)
         validNameSet == {ToLowerCase(v) : v \in Range(validNames)}
         notFoundNames ==
           SelectSeq(q.normalizedNames, LAMBDA n : ToLowerCase(n) \notin validNameSet)
         allInvalidNames == q.invalidEnsNames \o notFoundNames
     IN req' = [req EXCEPT ![r] =
          IF ~GateOpen(allInvalidNames)
            THEN Finish(q, [ErrorResp(400, ErrSomeInvalid) EXCEPT
                              !.success = "false",
                              !.invalidNames = allInvalidNames,
                              !.invalidFormat = q.invalidEnsNames,
                              !.notInDatabase = notFoundNames,
                              !.fields = {"success", "error", "invalidNames", "details"}])
          ELSE [q EXCEPT !.pc = "begin", !.dbNames = validNames]]
  /\ UNCHANGED <<directory, clubs, memberships, member_count, memberships0>>
  /\ UNCHANGED aggVars
  /\ UNCHANGED libVars
  /\ UNCHANGED catVars


\* ------------------------------------------------------------ transactions

\* The request holds an open transaction.
InTx(o) == req[o].pc = "loop"

\* The table as the request's transaction sees it: the committed rows and its
\* own pending writes.
Visible(r) == (memberships \cup req[r].ins) \ req[r].del

\* Another open transaction has a pending insert or delete of the row: a
\* statement that touches the row waits until that transaction ends.
RowBusy(r, row) ==
  \E o \in Reqs \ {r} : InTx(o) /\ row \in (req[o].ins \cup req[o].del)

\* Another open transaction has updated the category's clubs row (through the
\* member-count trigger) and so holds its row lock until it ends.
ClubRowBusy(r, c) ==
  \E o \in Reqs \ {r} : InTx(o) /\ req[o].cat = c /\ req[o].cnt # NoCount

\* TriggerCount reading the committed rows only and adding one.
TriggerCountIncrement(rows, c) ==
  Cardinality({row \in memberships : row[1] = c}) + 1

\* Trigger update_club_member_count: member_count of the category, recomputed
\* from the membership table as the writing transaction sees it.
TriggerCount(rows, c) == Cardinality({row \in rows : row[1] = c})

\* withActorTransaction up to the callback: pool.connect, BEGIN and
\* set_config('app.actor_address', actorAddress, true).
Begin(r) ==
  /\ req[r].pc = "begin"
  /\ req' = [req EXCEPT ![r] =
       [@ EXCEPT !.pc = "loop", !.idx = 1, !.actor = req[r].address,
                 !.ins = {}, !.del = {}, !.cnt = NoCount, !.dbCalls = @ + 1]]
  /\ UNCHANGED <<directory, clubs, memberships, member_count, memberships0>>
  /\ UNCHANGED aggVars
  /\ UNCHANGED libVars
  /\ UNCHANGED catVars

\* INSERT ... ON CONFLICT (club_name, ens_name) DO NOTHING RETURNING: the row
\* count is 1 when the row was inserted and 0 when it was there.
InsertRowCount(r, row) == IF row \in Visible(r) THEN 0 ELSE 1

\* One turn of the add loop: the insert of dbNames[idx] and the count of it.
AddStep(r) ==
  /\ InTx(r) /\ req[r].kind = "add"
  /\ req[r].idx <= Len(req[r].dbNames)
  /\ LET q == req[r]
         row == <<q.cat, q.dbNames[q.idx]>>
         rowCount == InsertRowCount(r, row)
     IN /\ ~RowBusy(r, row)
        /\ rowCount > 0 => ~ClubRowBusy(r, q.cat)
        /\ req' = [req EXCEPT ![r] =
             IF rowCount > 0
               THEN [q EXCEPT !.ins = @ \cup {row},
                              !.cnt = TriggerCount(Visible(r) \cup {row}, q.cat),
                              !.added = @ + 1, !.idx = @ + 1, !.dbCalls = @ + 1]
             ELSE [q EXCEPT !.skipped = @ + 1, !.idx = @ + 1, !.dbCalls = @ + 1]]
  /\ UNCHANGED <<directory, clubs, memberships, member_count, memberships0>>
  /\ UNCHANGED aggVars
  /\ UNCHANGED libVars
  /\ UNCHANGED catVars

\* DELETE FROM club_memberships WHERE club_name = $1 AND LOWER(ens_name) =
\* LOWER($2) RETURNING: the rows the statement deletes.
DeleteTargets(r, c, ensName) ==
  {row \in Visible(r) : row[1] = c /\ ToLowerCase(row[2]) = ToLowerCase(ensName)}

\* One turn of the remove loop: the delete for normalizedNames[idx].
RemoveStep(r) ==
  /\ InTx(r) /\ req[r].kind = "remove"
  /\ req[r].idx <= Len(req[r].normalizedNames)
  /\ LET q == req[r]
         targets == DeleteTargets(r, q.cat, q.normalizedNames[q.idx])
         rowCount == Cardinality(targets)
     IN /\ \A row \in targets : ~RowBusy(r, row)
        /\ rowCount > 0 => ~ClubRowBusy(r, q.cat)
        /\ req' = [req EXCEPT ![r] =
             IF rowCount > 0
               THEN [q EXCEPT !.del = @ \cup (targets \cap memberships),
                              !.ins = @ \ targets,
                              !.cnt = TriggerCount(Visible(r) \ targets, q.cat),
                              !.removed = @ + 1, !.idx = @ + 1, !.dbCalls = @ + 1]
             ELSE [q EXCEPT !.idx = @ + 1, !.dbCalls = @ + 1]]
  /\ UNCHANGED <<directory, clubs, memberships, member_count, memberships0>>
  /\ UNCHANGED aggVars
  /\ UNCHANGED libVars
  /\ UNCHANGED catVars

\* The statements of the callback have all run.
LoopDone(q) ==
  q.idx > (IF q.kind = "add" THEN Len(q.dbNames) ELSE Len(q.normalizedNames))

\* The 200 response of POST or DELETE members.
SuccessResp(q) ==
  IF q.kind = "add"
    THEN [BaseResp EXCEPT !.status = 200, !.success = "true",
                          !.added = q.added, !.skipped = q.skipped,
                          !.fields = {"success", "message", "added", "skipped"}]
  ELSE [BaseResp EXCEPT !.status = 200, !.success = "true",
                        !.removed = q.removed,
                        !.fields = {"success", "message", "removed"}]

\* COMMIT: the pending rows and the trigger's count become the committed
\* state, the client is released and the handler answers 200.
Commit(r) ==
  /\ InTx(r) /\ LoopDone(req[r])
  /\ LET q == req[r]
     IN /\ memberships' = (memberships \cup q.ins) \ q.del
        /\ member_count' =
             IF q.cnt = NoCount THEN member_count
             ELSE [member_count EXCEPT ![q.cat] = q.cnt]
        /\ req' = [req EXCEPT ![r] =
             Finish([q EXCEPT !.wrote = q.ins, !.erased = q.del,
                              !.ins = {}, !.del = {}, !.cnt = NoCount,
                              !.actor = NULL, !.dbCalls = @ + 1],
                    SuccessResp(q))]
  /\ UNCHANGED <<directory, clubs, memberships0>>
  /\ UNCHANGED aggVars
  /\ UNCHANGED libVars
  /\ UNCHANGED catVars

\* RowsAfterRollback when the catch block issues no ROLLBACK and the pending
\* writes go through.
RowsWithoutRollback(q) == (memberships \cup q.ins) \ q.del

\* The committed rows after a transaction ended in ROLLBACK: its pending
\* writes are discarded.
RowsAfterRollback(q) == memberships

\* The handler's catch block: the generic 500 of the route.
FailureResp(q) ==
  ErrorResp(500, CASE q.kind = "add" -> "Failed to add members"
                   [] q.kind = "remove" -> "Failed to remove members"
                   [] OTHER -> "Failed to scan for invalid names")

\* A query outside the transaction throws (connection lost, statement
\* cancelled): the route's catch block answers 500.
QueryFail(r) ==
  /\ req[r].pc \in {"checkCat", "lookup", "select"}
  /\ req' = [req EXCEPT ![r] =
       Finish([@ EXCEPT !.dbCalls = @ + 1], FailureResp(req[r]))]
  /\ UNCHANGED <<directory, clubs, memberships, member_count, memberships0>>
  /\ UNCHANGED aggVars
  /\ UNCHANGED libVars
  /\ UNCHANGED catVars

\* A statement of the transaction throws (connection lost, statement
\* cancelled, deadlock victim), BEGIN and set_config included: the helper's
\* catch block issues ROLLBACK, the client is released, the error is rethrown
\* and the route's catch block answers 500.
TxFail(r) ==
  /\ req[r].pc \in {"begin", "loop"}
  /\ LET q == req[r]
     IN /\ memberships' = RowsAfterRollback(q)
        /\ req' = [req EXCEPT ![r] =
             Finish([q EXCEPT !.ins = {}, !.del = {}, !.cnt = NoCount,
                              !.actor = NULL, !.dbCalls = @ + 1],
                    FailureResp(q))]
  /\ UNCHANGED <<directory, clubs, member_count, memberships0>>
  /\ UNCHANGED aggVars
  /\ UNCHANGED libVars
  /\ UNCHANGED catVars

\* ----------------------------------------------------------------- scanner

\* ScanEntry without the minimum-label-length rule.
ScanEntryNormalizeOnly(name) ==
  IF normalizeEnsName(name) = NULL
    THEN [name |-> name, reason |-> "Failed ENS normalization", chars |-> NoCount]
  ELSE [name |-> name, reason |-> "valid", chars |-> NoCount]

\* The scanner's verdict on one stored name: the reason it is invalid, or
\* "valid"; chars is the label length quoted in the too-short reason.
ScanEntry(name) ==
  LET normalized == normalizeEnsName(name)
      label == SubSeq(name, 1, Len(name) - 4)
  IN IF normalized = NULL
       THEN [name |-> name, reason |-> "Failed ENS normalization", chars |-> NoCount]
     ELSE IF EndsWith(name, DotEth) /\ Len(label) < MIN_LABEL_LENGTH
       THEN [name |-> name, reason |-> "Too short", chars |-> Len(label)]
     ELSE [name |-> name, reason |-> "valid", chars |-> NoCount]

\* SELECT ens_name FROM club_memberships WHERE club_name = $1 ORDER BY ens_name
CategoryNames(c) == SortedSeq({row[2] : row \in {m \in memberships : m[1] = c}})

\* Select that also deletes the rows it reports.
SelectAndPrune(r) ==
  /\ req[r].pc = "select"
  /\ LET q == [req[r] EXCEPT !.dbCalls = @ + 1]
         names == CategoryNames(q.cat)
         verdicts == [k \in 1..Len(names) |-> ScanEntry(names[k])]
         invalidNames == SelectSeq(verdicts, LAMBDA v : v.reason # "valid")
     IN /\ memberships' =
             memberships \ {<<q.cat, invalidNames[k].name>> : k \in 1..Len(invalidNames)}
        /\ req' = [req EXCEPT ![r] =
             Finish(q, [BaseResp EXCEPT
                          !.status = 200, !.success = "true",
                          !.totalScanned = Len(names),
                          !.invalidCount = Len(invalidNames),
                          !.scanInvalid = invalidNames])]
  /\ UNCHANGED <<directory, clubs, member_count, memberships0>>
  /\ UNCHANGED aggVars
  /\ UNCHANGED libVars
  /\ UNCHANGED catVars

\* GET invalid-names: the membership query, the validity loop and the answer.
Select(r) ==
  /\ req[r].pc = "select"
  /\ LET q == [req[r] EXCEPT !.dbCalls = @ + 1]
         names == CategoryNames(q.cat)
         verdicts == [k \in 1..Len(names) |-> ScanEntry(names[k])]
         invalidNames == SelectSeq(verdicts, LAMBDA v : v.reason # "valid")
     IN req' = [req EXCEPT ![r] =
          Finish(q, [BaseResp EXCEPT
                       !.status = 200, !.success = "true",
                       !.totalScanned = Len(names),
                       !.invalidCount = Len(invalidNames),
                       !.scanInvalid = invalidNames,
                       !.fields = {"success", "category", "totalScanned",
                                   "invalidCount", "invalidNames"}])]
  /\ UNCHANGED <<directory, clubs, memberships, member_count, memberships0>>
  /\ UNCHANGED aggVars
  /\ UNCHANGED libVars
  /\ UNCHANGED catVars

\* ------------------------------------------------------------------ inputs

SeqsUpTo(S, lo, hi) == UNION {[1..n -> S] : n \in lo..hi}

\* Concurrent specification: adds and removes on one category by an admin.
ConcPayloads == {<<nAbc>>, <<nAb>>, <<nAbc, nAb>>}
ConcDirectories == {<<nAbcU, nAbc, nAb>>}
ConcMemberships == {{}, {<<cC1, nAbc>>, <<cC1, nAb>>}}

\* A client sends a request.  The slots are interchangeable and are taken in
\* order.
Issue(r) ==
  /\ req[r].pc = "idle"
  /\ \A o \in Reqs : o < r => req[o].pc # "idle"
  /\ \E kind \in {"add", "remove"}, names \in ConcPayloads :
       req' = [req EXCEPT ![r] =
         [IdleReq EXCEPT !.pc = "start", !.kind = kind, !.cat = cC1,
                         !.names = names, !.token = "tokAdmin"]]
  /\ UNCHANGED <<directory, clubs, memberships, member_count, memberships0>>
  /\ UNCHANGED aggVars
  /\ UNCHANGED libVars
  /\ UNCHANGED catVars

\* The library, middleware, browser and form state where no step uses it.
IdleLimiter ==
  [pc |-> "idle", now |-> 0, lastCleanup |-> 0, store |-> <<>>, calls |-> <<>>,
   ticks |-> 0, limit |-> 1, windowMs |-> 1]
IdleMiddleware == [pc |-> "idle", others |-> 0]
IdleBrowser == [pc |-> "idle"]
IdleNorm == [pc |-> "idle"]
IdleForm == [pc |-> "idle"]
IdleTx ==
  [pc |-> "idle", fn |-> "", actorAddress |-> NULL, alive |-> TRUE, open |-> FALSE,
   actor |-> NULL, released |-> 0, callback |-> "none", error |-> "none",
   thrown |-> "none", statements |-> <<>>]

LibIdle ==
  /\ rl = IdleLimiter /\ mw = IdleMiddleware /\ jar = IdleBrowser
  /\ norm = IdleNorm /\ form = IdleForm /\ tx = IdleTx

AggIdle ==
  /\ variant = "none" /\ rawEntries = <<>> /\ cursor = 0
  /\ processedIds = {} /\ grouped = <<>>

\* A clubs row as POST /api/cats inserts it when only the name is given.
BlankClubRow == [display_name |-> NULL, description |-> NULL, classifications |-> <<>>]

\* JSON values of a request body or form field, by what the handlers test:
\* absent (undefined, or null for a form field), an array of strings, another
\* JSON value, and text that JSON.parse rejects.
JsonAbsent == [t |-> "absent", items |-> <<>>]
JsonArray(items) == [t |-> "array", items |-> items]
JsonObject == [t |-> "object", items |-> <<>>]
JsonMalformed == [t |-> "malformed", items |-> <<>>]

\* A body field that is not there (undefined), as opposed to null.
Undefined == <<"undefined">>

\* The response of the category, activity and members routes.
BaseAdmResp ==
  [status |-> 0, error |-> "", success |-> "absent", data |-> NULL,
   entries |-> <<>>, totalEntries |-> NoCount,
   added |-> NoCount, skipped |-> NoCount, removed |-> NoCount,
   invalidNames |-> <<>>]

AdmError(status, error) == [BaseAdmResp EXCEPT !.status = status, !.error = error]

IdleAdm ==
  [pc |-> "idle", kind |-> "none", token |-> NoToken, cat |-> <<>>,
   name |-> NULL, display_name |-> NULL, description |-> NULL,
   classifications |-> JsonAbsent, names |-> <<>>,
   filter |-> [table |-> "", operation |-> "", actor |-> NULL,
               hideSystem |-> FALSE, category |-> NULL, name |-> NULL,
               days |-> 0, page |-> 1, limit |-> 1],
   dbCalls |-> 0, resp |-> BaseAdmResp]

\* The category columns, the audit log and the category routes where no
\* request uses them.
CatIdle ==
  /\ clubRows = [c \in clubs |-> BlankClubRow]
  /\ auditLog = <<>>
  /\ adm = IdleAdm
  /\ stmts = <<>>

Init ==
  /\ directory \in ConcDirectories
  /\ clubs = {cC1}
  /\ memberships \in ConcMemberships
  /\ member_count = [c \in clubs |-> Cardinality({row \in memberships : row[1] = c})]
  /\ memberships0 = memberships
  /\ req = [r \in Reqs |-> IdleReq]
  /\ AggIdle
  /\ CatIdle
  /\ LibIdle

Next ==
  \E r \in Reqs :
    \/ Issue(r)
    \/ Start(r)
    \/ CheckCategory(r)
    \/ Lookup(r)
    \/ Begin(r)
    \/ AddStep(r)
    \/ RemoveStep(r)
    \/ Commit(r)
    \/ TxFail(r)

Spec == Init /\ [][Next]_vars


\* Sequential specification: one request at a time, of every kind, by every
\* kind of caller, on an existing and on a missing category.
SeqNames == {nAbc, nAbcU, nAb, nBad, nBlank, nAbcCom}
SeqDirectories == {<<nAbc>>, <<nAbcU, nAbc, nAb, nAbcCom>>}
SeqTokens == {NoToken, "tokBad", "tokUser", "tokAdmin"}
StoredRows ==
  {<<cC1, nAbc>>, <<cC1, nAbcU>>, <<cC1, nAb>>, <<cC1, nBad>>, <<cC1, nAbBare>>}

\* Names arrays at and just over the size cap.
AtCapNames == [k \in 1..MAX_NAMES_PER_REQUEST |-> nAb]
OversizedNames == [k \in 1..(MAX_NAMES_PER_REQUEST + 1) |-> nAb]

SeqPayloads == SeqsUpTo(SeqNames, 0, MaxBatch) \cup {AtCapNames, OversizedNames}

IssueSeq(r) ==
  /\ req[r].pc = "idle"
  /\ \E kind \in {"add", "remove", "scan"}, cat \in {cC1, cZZ}, token \in SeqTokens,
        names \in SeqPayloads :
       /\ kind = "scan" => names = <<>>
       /\ names = AtCapNames => kind = "add" /\ cat = cC1
       /\ req' = [req EXCEPT ![r] =
            [IdleReq EXCEPT !.pc = "start", !.kind = kind, !.cat = cat,
                            !.names = names, !.token = token]]
  /\ UNCHANGED <<directory, clubs, memberships, member_count, memberships0>>
  /\ UNCHANGED aggVars
  /\ UNCHANGED libVars
  /\ UNCHANGED catVars

InitSeq ==
  /\ directory \in SeqDirectories
  /\ clubs = {cC1}
  /\ memberships \in SUBSET StoredRows
  /\ member_count = [c \in clubs |-> Cardinality({row \in memberships : row[1] = c})]
  /\ memberships0 = memberships
  /\ req = [r \in Reqs |-> IdleReq]
  /\ AggIdle
  /\ CatIdle
  /\ LibIdle

NextSeq ==
  \/ IssueSeq(1)
  \/ Start(1)
  \/ CheckCategory(1)
  \/ Lookup(1)
  \/ Select(1)
  \/ Begin(1)
  \/ AddStep(1)
  \/ RemoveStep(1)
  \/ Commit(1)
  \/ QueryFail(1)
  \/ TxFail(1)

SpecSeq == InitSeq /\ [][NextSeq]_vars

\* -------------------------------------------------------------- aggregator

\* A null old_data or new_data snapshot.
NoData == [null |-> "null"]

\* Row snapshots of the audit log, each column as its JSON text.
ClubRow(description, count, updated) ==
  [description |-> description, member_count |-> count, updated_at |-> updated]
MemberRow == [club_name |-> "c1", ens_name |-> "abc.eth", added_at |-> "t1"]

\* The shapes of audit entries a page is made of (id and created_at apart):
\* a membership INSERT on c1, the member-count update it triggers, an edit of
\* the description, a count update without actor, a count update of another
\* category, and a category INSERT.
MembershipInsert ==
  [table_name |-> "club_memberships", operation |-> "INSERT",
   record_key |-> cC1 \o <<":">> \o nAbc,
   old_data |-> NoData, new_data |-> MemberRow, actor_address |-> aAdmin]
CountUpdate ==
  [table_name |-> "clubs", operation |-> "UPDATE", record_key |-> cC1,
   old_data |-> ClubRow("d0", "0", "t0"), new_data |-> ClubRow("d0", "1", "t0"),
   actor_address |-> aAdmin]
DescriptionUpdate ==
  [table_name |-> "clubs", operation |-> "UPDATE", record_key |-> cC1,
   old_data |-> ClubRow("d0", "0", "t0"), new_data |-> ClubRow("d1", "0", "t1"),
   actor_address |-> aAdmin]
SystemCountUpdate == [CountUpdate EXCEPT !.actor_address = NULL]
OtherCountUpdate == [CountUpdate EXCEPT !.record_key = cZZ]
CategoryInsert ==
  [table_name |-> "clubs", operation |-> "INSERT", record_key |-> cC1,
   old_data |-> NoData, new_data |-> ClubRow("d0", "0", "t0"),
   actor_address |-> aAdmin]

EntryShapes ==
  {MembershipInsert, CountUpdate, DescriptionUpdate, SystemCountUpdate,
   OtherCountUpdate, CategoryInsert}

\* created_at of an entry, in milliseconds.
EntryTimes == {0, 1, GROUP_WINDOW_MS}

\* A page of the activity API: newest first (ORDER BY created_at DESC), the
\* ids (a serial column) distinct.
MakePage(s) ==
  [k \in 1..Len(s) |->
     [id |-> Len(s) - k + 1, table_name |-> s[k][1].table_name,
      operation |-> s[k][1].operation, record_key |-> s[k][1].record_key,
      old_data |-> s[k][1].old_data, new_data |-> s[k][1].new_data,
      actor_address |-> s[k][1].actor_address, created_at |-> s[k][2]]]

Pages ==
  {MakePage(s) : s \in {t \in SeqsUpTo(EntryShapes \X EntryTimes, 1, MaxPage) :
                          \A k \in 1..(Len(t) - 1) : t[k][2] >= t[k + 1][2]}}

Abs(x) == IF x < 0 THEN -x ELSE x

\* The columns an update may change without being a meaningful edit.
IgnoreList(v) ==
  IF v = "section"
    THEN {"created_at", "updated_at", "added_at", "member_count", "last_sales_update"}
  ELSE {"created_at", "updated_at", "member_count", "last_sales_update"}

\* JSON.stringify(data?.[key]); "undefined" when data is null or lacks the key.
JsonOf(data, key) ==
  IF data = NoData THEN "undefined"
  ELSE IF key \notin DOMAIN data THEN "undefined"
  ELSE data[key]

\* The keys of new_data that changed and are not on the ignore list.
MeaningfulChanges(v, entry) ==
  IF entry.new_data = NoData THEN {}
  ELSE {key \in DOMAIN entry.new_data :
          /\ key \notin IgnoreList(v)
          /\ JsonOf(entry.old_data, key) # JsonOf(entry.new_data, key)}

\* The other unprocessed entries of the same actor less than a second away.
Related(entry) ==
  SelectSeq(rawEntries, LAMBDA e :
    /\ e.id # entry.id /\ e.id \notin processedIds
    /\ Abs(e.created_at - entry.created_at) < GROUP_WINDOW_MS
    /\ e.actor_address = entry.actor_address)

\* Every related update of the clubs row, not the first alone.
MatchedEverySubEvent(entry) ==
  LET clubName == SplitOn(entry.record_key, ":")[1]
  IN SelectSeq(Related(entry), LAMBDA e :
       e.table_name = "clubs" /\ e.operation = "UPDATE" /\ e.record_key = clubName)

\* The sub-events of a membership entry: the first related update of the
\* clubs row its record_key names, if any.
MatchedSubEvent(entry) ==
  LET clubName == SplitOn(entry.record_key, ":")[1]
      subEvents == SelectSeq(Related(entry), LAMBDA e :
        e.table_name = "clubs" /\ e.operation = "UPDATE" /\ e.record_key = clubName)
  IN IF Len(subEvents) > 0 THEN <<subEvents[1]>> ELSE <<>>

\* MarkProcessed without the forEach that marks the matched sub-events.
MarkProcessedMainOnly(processed, entry, matched) == processed \cup {entry.id}

\* processedIds after an entry was handled with the given sub-events.
MarkProcessed(processed, entry, matched) ==
  processed \cup {e.id : e \in Range(matched)} \cup {entry.id}

\* One turn of the grouping loop over rawEntries.
AggStep ==
  /\ variant \in {"section", "page"}
  /\ cursor <= Len(rawEntries)
  /\ LET entry == rawEntries[cursor]
         matched == IF entry.table_name = "club_memberships"
                      THEN MatchedSubEvent(entry) ELSE <<>>
         pushed ==
           IF entry.table_name = "club_memberships" THEN TRUE
           ELSE IF entry.table_name = "clubs" /\ entry.operation = "UPDATE"
             THEN MeaningfulChanges(variant, entry) # {}
           ELSE TRUE
     IN IF entry.id \in processedIds
          THEN UNCHANGED <<processedIds, grouped>>
        ELSE /\ processedIds' = MarkProcessed(processedIds, entry, matched)
             /\ grouped' = IF pushed
                             THEN Append(grouped, [main |-> entry, subEvents |-> matched])
                           ELSE grouped
  /\ cursor' = cursor + 1
  /\ UNCHANGED <<variant, rawEntries>>
  /\ UNCHANGED dbVars

InitAgg ==
  /\ directory = <<>>
  /\ clubs = {}
  /\ memberships = {}
  /\ member_count = [c \in clubs |-> 0]
  /\ memberships0 = {}
  /\ req = [r \in Reqs |-> IdleReq]
  /\ CatIdle
  /\ LibIdle
  /\ variant \in {"section", "page"}
  /\ rawEntries \in Pages
  /\ cursor = 1
  /\ processedIds = {}
  /\ grouped = <<>>

NextAgg == AggStep

SpecAgg == InitAgg /\ [][NextAgg]_vars

\* --------------------------------------------------------- category routes

\* Limits of POST /api/cats and PUT /api/cats/[name].
MAX_CATEGORY_NAME_LENGTH == 50
MAX_DESCRIPTION_LENGTH == 500
MAX_DISPLAY_NAME_LENGTH == 100

VALID_CLASSIFICATIONS ==
  {"ethmojis", "digits", "palindromes", "prepunk", "geo", "letters", "fantasy", "crypto"}

isValidClassification(value) == value \in VALID_CLASSIFICATIONS

validateClassifications(values) ==
  SelectSeq(values, LAMBDA v : isValidClassification(v))

\* The characters of /^[a-z0-9_]+$/ among those the model uses.
SlugChars == {"a", "b", "c", "e", "h", "m", "o", "t", "x", "z", "0", "1", "_"}

nameRegexTest(name) ==
  Len(name) >= 1 /\ \A k \in 1..Len(name) : name[k] \in SlugChars

\* JavaScript truthiness of a string field: not undefined, null or ''.
Truthy(v) == v # NULL /\ v # Undefined /\ v # <<>>

\* value || null
OrNull(v) == IF Truthy(v) THEN v ELSE NULL

\* A statement that writes, as the history keeps it: the table, the
\* operation, the row's key, the columns it assigns and app.actor_address in
\* the transaction that ran it (null when the transaction never set it).
WriteStmt(table, operation, key, columns, actor) ==
  [table |-> table, operation |-> operation, key |-> key,
   columns |-> columns, actor |-> actor]

\* What a handler run comes to: the response, the number of database calls
\* and, for a run that commits, the row it leaves.
Outcome(resp, dbCalls, row) == [resp |-> resp, dbCalls |-> dbCalls, row |-> row]

\* POST /api/cats up to its response, for a form without image files; fail
\* names the database call that throws, if one does.
CreateOutcome(q, fail) ==
  LET v == verifyAdmin(q.token)
      rawClassifications == q.classifications
      classifications ==
        IF rawClassifications.t = "array"
          THEN validateClassifications(rawClassifications.items)
          ELSE <<>>
      created ==
        [display_name |-> OrNull(q.display_name),
         description |-> OrNull(q.description),
         classifications |-> classifications]
  IN IF q.token = NoToken THEN Outcome(AdmError(401, "Unauthorized"), 0, NULL)
     ELSE IF ~v.isAdmin \/ v.address = NULL
       THEN Outcome(AdmError(403, "Forbidden"), 0, NULL)
     ELSE IF ~Truthy(q.name) THEN Outcome(AdmError(400, "Name is required"), 0, NULL)
     ELSE IF rawClassifications.t = "malformed"
       THEN Outcome(AdmError(500, "Failed to create category"), 0, NULL)
     ELSE IF ~nameRegexTest(q.name)
       THEN Outcome(AdmError(400, "Name must be lowercase alphanumeric with underscores only"),
                    0, NULL)
     ELSE IF Len(q.name) > MAX_CATEGORY_NAME_LENGTH
       THEN Outcome(AdmError(400, "Name must be 50 characters or less"), 0, NULL)
     ELSE IF Truthy(q.description) /\ Len(q.description) > MAX_DESCRIPTION_LENGTH
       THEN Outcome(AdmError(400, "Description must be 500 characters or less"), 0, NULL)
     ELSE IF Truthy(q.display_name) /\ Len(q.display_name) > MAX_DISPLAY_NAME_LENGTH
       THEN Outcome(AdmError(400, "Display name must be 100 characters or less"), 0, NULL)
     ELSE IF fail = "select"
       THEN Outcome(AdmError(500, "Failed to create category"), 1, NULL)
     ELSE IF q.name \in clubs
       THEN Outcome(AdmError(409, "Category already exists"), 1, NULL)
     ELSE IF fail = "tx"
       THEN Outcome(AdmError(500, "Failed to create category"), 2, NULL)
     ELSE Outcome([BaseAdmResp EXCEPT !.status = 201, !.success = "true",
                                      !.data = created],
                  2, created)

\* POST /api/cats: the whole handler, with the INSERT INTO clubs that names
\* member_count among its columns, inside withActorTransaction.
CreateCategory ==
  /\ adm.pc = "start" /\ adm.kind = "create"
  /\ \E fail \in {"none", "select", "tx"} :
       LET out == CreateOutcome(adm, fail)
       IN /\ adm' = [adm EXCEPT !.pc = "done", !.resp = out.resp,
                                !.dbCalls = out.dbCalls]
          /\ IF out.resp.status = 201
               THEN /\ clubs' = clubs \cup {adm.name}
                    /\ clubRows' = [c \in clubs \cup {adm.name} |->
                                      IF c = adm.name THEN out.row ELSE clubRows[c]]
                    /\ member_count' = [c \in clubs \cup {adm.name} |->
                                          IF c = adm.name THEN 0 ELSE member_count[c]]
                    /\ stmts' = Append(stmts,
                         WriteStmt("clubs", "INSERT", adm.name,
                                   {"name", "display_name", "description",
                                    "classifications", "member_count",
                                    "created_at", "updated_at"},
                                   verifyAdmin(adm.token).address))
               ELSE UNCHANGED <<clubs, clubRows, member_count, stmts>>
  /\ UNCHANGED <<directory, memberships, memberships0, req, auditLog>>
  /\ UNCHANGED aggVars
  /\ UNCHANGED libVars

\* PUT /api/cats/[name] up to its response; the row is the category's row
\* after the dynamic UPDATE.
UpdateOutcome(q, fail) ==
  LET v == verifyAdmin(q.token)
      rawClassifications == q.classifications
      classifications ==
        IF rawClassifications.t = "array"
          THEN validateClassifications(rawClassifications.items)
          ELSE <<>>
      old == clubRows[q.cat]
      updated ==
        [description |-> IF q.description # Undefined
                           THEN OrNull(q.description) ELSE old.description,
         display_name |-> IF q.display_name # Undefined
                            THEN OrNull(q.display_name) ELSE old.display_name,
         classifications |-> IF rawClassifications.t # "absent"
                               THEN classifications ELSE old.classifications]
  IN IF q.token = NoToken THEN Outcome(AdmError(401, "Unauthorized"), 0, NULL)
     ELSE IF ~v.isAdmin \/ v.address = NULL
       THEN Outcome(AdmError(403, "Forbidden"), 0, NULL)
     ELSE IF Truthy(q.description) /\ Len(q.description) > MAX_DESCRIPTION_LENGTH
       THEN Outcome(AdmError(400, "Description must be 500 characters or less"), 0, NULL)
     ELSE IF Truthy(q.display_name) /\ Len(q.display_name) > MAX_DISPLAY_NAME_LENGTH
       THEN Outcome(AdmError(400, "Display name must be 100 characters or less"), 0, NULL)
     ELSE IF fail = "select"
       THEN Outcome(AdmError(500, "Failed to update category"), 1, NULL)
     ELSE IF q.cat \notin clubs
       THEN Outcome(AdmError(404, "Category not found"), 1, NULL)
     ELSE IF fail = "tx"
       THEN Outcome(AdmError(500, "Failed to update category"), 2, NULL)
     ELSE Outcome([BaseAdmResp EXCEPT !.status = 200, !.success = "true",
                                      !.data = updated],
                  2, updated)

\* The SET clauses of the dynamic UPDATE.
SetClauses(q) ==
  {"updated_at"}
    \cup (IF q.description # Undefined THEN {"description"} ELSE {})
    \cup (IF q.display_name # Undefined THEN {"display_name"} ELSE {})
    \cup (IF q.classifications.t # "absent" THEN {"classifications"} ELSE {})

\* PUT /api/cats/[name]: the whole handler.
UpdateCategory ==
  /\ adm.pc = "start" /\ adm.kind = "update"
  /\ \E fail \in {"none", "select", "tx"} :
       LET out == UpdateOutcome(adm, fail)
       IN /\ adm' = [adm EXCEPT !.pc = "done", !.resp = out.resp,
                                !.dbCalls = out.dbCalls]
          /\ IF out.resp.status = 200
               THEN /\ clubRows' = [clubRows EXCEPT ![adm.cat] = out.row]
                    /\ stmts' = Append(stmts,
                         WriteStmt("clubs", "UPDATE", adm.cat, SetClauses(adm),
                                   verifyAdmin(adm.token).address))
               ELSE UNCHANGED <<clubRows, stmts>>
  /\ UNCHANGED <<directory, clubs, memberships, member_count, memberships0, req, auditLog>>
  /\ UNCHANGED aggVars
  /\ UNCHANGED libVars

\* ----------------------------------------------------------- activity route

\* The WHERE clause GET /api/activity builds from its query parameters.
ActivityWhere(f, e) ==
  /\ f.hideSystem => e.actor_address # NULL
  /\ f.table # "" => e.table_name = f.table
  /\ f.operation # "" => e.operation = f.operation
  /\ Truthy(f.actor) =>
       /\ e.actor_address # NULL
       /\ ToLowerCase(e.actor_address) = ToLowerCase(f.actor)

Min(a, b) == IF a < b THEN a ELSE b

\* GET /api/activity up to its response: the count query and the page query.
ActivityOutcome(q, fail) ==
  LET v == verifyAdmin(q.token)
      f == q.filter
      offset == (f.page - 1) * f.limit
      rows == SelectSeq(auditLog, LAMBDA e : ActivityWhere(f, e))
      totalCount == Len(rows)
      entries == SubSeq(rows, offset + 1, Min(offset + f.limit, Len(rows)))
  IN IF q.token = NoToken THEN Outcome(AdmError(401, "Unauthorized"), 0, NULL)
     ELSE IF ~v.isAdmin THEN Outcome(AdmError(403, "Forbidden"), 0, NULL)
     ELSE IF fail = "denied"
       THEN Outcome(AdmError(403, "Permission denied. SELECT access on clubs_audit_log not granted yet."),
                    1, NULL)
     ELSE IF fail = "query"
       THEN Outcome(AdmError(500, "Failed to get activity log"), 1, NULL)
     ELSE Outcome([BaseAdmResp EXCEPT !.status = 200, !.success = "true",
                                      !.entries = entries,
                                      !.totalEntries = totalCount],
                  2, NULL)

\* GET /api/activity: the whole handler; it reads clubs_audit_log only.
ListActivity ==
  /\ adm.pc = "start" /\ adm.kind = "activity"
  /\ \E fail \in {"none", "denied", "query"} :
       LET out == ActivityOutcome(adm, fail)
       IN adm' = [adm EXCEPT !.pc = "done", !.resp = out.resp,
                             !.dbCalls = out.dbCalls]
  /\ UNCHANGED <<directory, clubs, memberships, member_count, memberships0, req,
                 clubRows, auditLog, stmts>>
  /\ UNCHANGED aggVars
  /\ UNCHANGED libVars

\* ------------------------------------------------------------ members route

\* names.map(n => n.trim().toLowerCase()).filter(n => n.length > 0)
TrimLowerAll(names) ==
  SelectSeq([k \in 1..Len(names) |-> ToLowerCase(Trim(names[k]))],
            LAMBDA n : Len(n) > 0)

\* A sequence has the same element twice.
HasDuplicate(s) == \E i, j \in 1..Len(s) : i < j /\ s[i] = s[j]

\* POST /api/cats/[name]/members up to its response; the row is the set of
\* memberships inserted. The second INSERT of one name in a batch breaks
\* the unique index on (club_name, ens_name) and the transaction rolls back.
MembersPostOutcome(q, fail) ==
  LET v == verifyAdmin(q.token)
      normalizedNames == TrimLowerAll(q.names)
      validNameSet == {directory[k] : k \in 1..Len(directory)} \cap Range(normalizedNames)
      invalidNames == SelectSeq(normalizedNames, LAMBDA n : n \notin validNameSet)
      existingSet == {n \in Range(normalizedNames) : <<q.cat, n>> \in memberships}
      newNames == SelectSeq(normalizedNames, LAMBDA n : n \notin existingSet)
  IN IF q.token = NoToken THEN Outcome(AdmError(401, "Unauthorized"), 0, {})
     ELSE IF ~v.isAdmin THEN Outcome(AdmError(403, "Forbidden"), 0, {})
     ELSE IF Len(q.names) = 0
       THEN Outcome(AdmError(400, "Names array is required"), 0, {})
     ELSE IF Len(normalizedNames) = 0
       THEN Outcome(AdmError(400, "No valid names provided"), 0, {})
     ELSE IF fail = "select"
       THEN Outcome(AdmError(500, "Failed to add members"), 1, {})
     ELSE IF q.cat \notin clubs
       THEN Outcome(AdmError(404, "Category not found"), 1, {})
     ELSE IF Len(invalidNames) > 0
       THEN Outcome([AdmError(400, "Some ENS names are not valid or not found")
                       EXCEPT !.invalidNames = invalidNames], 2, {})
     ELSE IF Len(newNames) = 0
       THEN Outcome([BaseAdmResp EXCEPT !.status = 200, !.success = "true",
                                        !.added = 0,
                                        !.skipped = Len(normalizedNames)], 3, {})
     ELSE IF fail = "tx" \/ HasDuplicate(newNames)
       THEN Outcome(AdmError(500, "Failed to add members"), 4, {})
     ELSE Outcome([BaseAdmResp EXCEPT !.status = 200, !.success = "true",
                                      !.added = Len(newNames),
                                      !.skipped = Cardinality(existingSet)],
                  4, {<<q.cat, n>> : n \in Range(newNames)})

\* UPDATE clubs SET member_count = (SELECT COUNT(*) FROM club_memberships
\* WHERE club_name = $1)
CountOfRows(rows, c) == Cardinality({row \in rows : row[1] = c})

\* POST /api/cats/[name]/members: the whole handler, its writes inside
\* withTransaction, which sets no actor.
MembersPost ==
  /\ adm.pc = "start" /\ adm.kind = "membersAdd"
  /\ \E fail \in {"none", "select", "tx"} :
       LET out == MembersPostOutcome(adm, fail)
           newNames == SortedSeq({row[2] : row \in out.row})
       IN /\ adm' = [adm EXCEPT !.pc = "done", !.resp = out.resp,
                                !.dbCalls = out.dbCalls]
          /\ IF out.row # {}
               THEN /\ memberships' = memberships \cup out.row
                    /\ member_count' = [member_count EXCEPT ![adm.cat] =
                                          CountOfRows(memberships \cup out.row, adm.cat)]
                    /\ stmts' = stmts
                         \o [k \in 1..Len(newNames) |->
                               WriteStmt("club_memberships", "INSERT",
                                         adm.cat \o <<":">> \o newNames[k],
                                         {"club_name", "ens_name", "created_at"}, NULL)]
                         \o <<WriteStmt("clubs", "UPDATE", adm.cat,
                                        {"member_count", "updated_at"}, NULL)>>
               ELSE UNCHANGED <<memberships, member_count, stmts>>
  /\ UNCHANGED <<directory, clubs, memberships0, req, clubRows, auditLog>>
  /\ UNCHANGED aggVars
  /\ UNCHANGED libVars

\* DELETE /api/cats/[name]/members up to its response; the row is the set
\* of memberships the DELETE ... IN (...) removes.
MembersDeleteOutcome(q, fail) ==
  LET v == verifyAdmin(q.token)
      normalizedNames == TrimLowerAll(q.names)
      deleted == {row \in memberships :
                    row[1] = q.cat /\ row[2] \in Range(normalizedNames)}
  IN IF q.token = NoToken THEN Outcome(AdmError(401, "Unauthorized"), 0, {})
     ELSE IF ~v.isAdmin THEN Outcome(AdmError(403, "Forbidden"), 0, {})
     ELSE IF Len(q.names) = 0
       THEN Outcome(AdmError(400, "Names array is required"), 0, {})
     ELSE IF Len(normalizedNames) = 0
       THEN Outcome(AdmError(400, "No valid names provided"), 0, {})
     ELSE IF fail = "select"
       THEN Outcome(AdmError(500, "Failed to remove members"), 1, {})
     ELSE IF q.cat \notin clubs
       THEN Outcome(AdmError(404, "Category not found"), 1, {})
     ELSE IF fail = "tx"
       THEN Outcome(AdmError(500, "Failed to remove members"), 2, {})
     ELSE Outcome([BaseAdmResp EXCEPT !.status = 200, !.success = "true",
                                      !.removed = Cardinality(deleted)],
                  2, deleted)

\* DELETE /api/cats/[name]/members: the whole handler, its writes inside
\* withTransaction, which sets no actor.
MembersDelete ==
  /\ adm.pc = "start" /\ adm.kind = "membersRemove"
  /\ \E fail \in {"none", "select", "tx"} :
       LET out == MembersDeleteOutcome(adm, fail)
       IN /\ adm' = [adm EXCEPT !.pc = "done", !.resp = out.resp,
                                !.dbCalls = out.dbCalls]
          /\ IF out.resp.status = 200
               THEN /\ memberships' = memberships \ out.row
                    /\ member_count' = [member_count EXCEPT ![adm.cat] =
                                          CountOfRows(memberships \ out.row, adm.cat)]
                    /\ stmts' = stmts
                         \o <<WriteStmt("club_memberships", "DELETE", adm.cat,
                                        {}, NULL),
                              WriteStmt("clubs", "UPDATE", adm.cat,
                                        {"member_count", "updated_at"}, NULL)>>
               ELSE UNCHANGED <<memberships, member_count, stmts>>
  /\ UNCHANGED <<directory, clubs, memberships0, req, clubRows, auditLog>>
  /\ UNCHANGED aggVars
  /\ UNCHANGED libVars

\* ------------------------------------------- specification of all the routes

\* A text of n characters.
Text(n) == [k \in 1..n |-> "x"]

\* Category names of the create form: absent, empty, one character, two
\* characters, the existing category, with an upper-case letter, with a
\* character outside the grammar, and at and over the length limit.
CreateNames ==
  {NULL, <<>>, <<"a">>, <<"a", "b">>, cC1, <<"A", "b">>, <<"a", "!">>,
   [k \in 1..MAX_CATEGORY_NAME_LENGTH |-> "a"],
   [k \in 1..(MAX_CATEGORY_NAME_LENGTH + 1) |-> "a"]}

\* Classification fields: none, known tags, a known and an unknown tag, an
\* unknown tag, and a JSON value that is not an array.
ClassificationInputs ==
  {JsonAbsent, JsonArray(<<"geo">>), JsonArray(<<"geo", "bogus">>),
   JsonArray(<<"bogus">>), JsonObject}

\* A clubs row with every column set.
StoredClubRow ==
  [display_name |-> Text(2), description |-> Text(3), classifications |-> <<"digits">>]

\* The audit log the activity route reads: empty, or one entry of every
\* shape, newest first.
AdminLogs ==
  {<<>>,
   MakePage(<< <<MembershipInsert, GROUP_WINDOW_MS>>, <<CountUpdate, GROUP_WINDOW_MS>>,
               <<SystemCountUpdate, 1>>, <<OtherCountUpdate, 1>>,
               <<DescriptionUpdate, 0>>, <<CategoryInsert, 0>> >>)}

\* Names arrays of the requests to the members route and, in this
\* specification, to the invalid-names route.
AdminPayloads == SeqsUpTo({nAbc, nAbcU, nBlank}, 0, 2)

Quiet == adm.pc = "idle" /\ \A r \in Reqs : req[r].pc = "idle"

IssueCore(r) ==
  /\ Quiet
  /\ \E kind \in {"add", "remove", "scan"}, cat \in {cC1, cZZ}, token \in SeqTokens,
        names \in {<<>>, <<nAbc>>, <<nAb, nBad>>} :
       /\ kind = "scan" => names = <<>>
       /\ req' = [req EXCEPT ![r] =
            [IdleReq EXCEPT !.pc = "start", !.kind = kind, !.cat = cat,
                            !.names = names, !.token = token]]
  /\ UNCHANGED <<directory, clubs, memberships, member_count, memberships0>>
  /\ UNCHANGED aggVars
  /\ UNCHANGED libVars
  /\ UNCHANGED catVars

IssueCreate ==
  /\ Quiet
  /\ \E token \in SeqTokens, name \in CreateNames,
        display_name \in {NULL, Text(MAX_DISPLAY_NAME_LENGTH), Text(MAX_DISPLAY_NAME_LENGTH + 1)},
        description \in {NULL, Text(MAX_DESCRIPTION_LENGTH), Text(MAX_DESCRIPTION_LENGTH + 1)},
        classifications \in ClassificationInputs \cup {JsonMalformed} :
       adm' = [IdleAdm EXCEPT !.pc = "start", !.kind = "create", !.token = token,
                              !.name = name, !.display_name = display_name,
                              !.description = description,
                              !.classifications = classifications]
  /\ UNCHANGED <<directory, clubs, memberships, member_count, memberships0, req,
                 clubRows, auditLog, stmts>>
  /\ UNCHANGED aggVars
  /\ UNCHANGED libVars

IssueUpdate ==
  /\ Quiet
  /\ \E token \in SeqTokens, cat \in {cC1, cZZ},
        display_name \in {Undefined, <<>>, Text(1), Text(MAX_DISPLAY_NAME_LENGTH + 1)},
        description \in {Undefined, <<>>, Text(1), Text(MAX_DESCRIPTION_LENGTH + 1)},
        classifications \in ClassificationInputs :
       adm' = [IdleAdm EXCEPT !.pc = "start", !.kind = "update", !.token = token,
                              !.cat = cat, !.display_name = display_name,
                              !.description = description,
                              !.classifications = classifications]
  /\ UNCHANGED <<directory, clubs, memberships, member_count, memberships0, req,
                 clubRows, auditLog, stmts>>
  /\ UNCHANGED aggVars
  /\ UNCHANGED libVars

\* The query parameters of GET /api/activity as fetchActivity sends them.
ActivityFilters ==
  [table : {"", "clubs"}, operation : {"", "UPDATE"},
   actor : {NULL, ToLowerCase(aAdmin)}, hideSystem : BOOLEAN,
   category : {NULL, cC1}, name : {NULL, nAbc}, days : {0, 1},
   page : {1, 2}, limit : {1, 6}]

IssueActivity ==
  /\ Quiet
  /\ \E token \in SeqTokens, filter \in ActivityFilters :
       adm' = [IdleAdm EXCEPT !.pc = "start", !.kind = "activity", !.token = token,
                              !.filter = filter]
  /\ UNCHANGED <<directory, clubs, memberships, member_count, memberships0, req,
                 clubRows, auditLog, stmts>>
  /\ UNCHANGED aggVars
  /\ UNCHANGED libVars

IssueMembers ==
  /\ Quiet
  /\ \E token \in SeqTokens, kind \in {"membersAdd", "membersRemove"},
        cat \in {cC1, cZZ}, names \in AdminPayloads :
       adm' = [IdleAdm EXCEPT !.pc = "start", !.kind = kind, !.token = token,
                              !.cat = cat, !.names = names]
  /\ UNCHANGED <<directory, clubs, memberships, member_count, memberships0, req,
                 clubRows, auditLog, stmts>>
  /\ UNCHANGED aggVars
  /\ UNCHANGED libVars

InitAdmin ==
  /\ directory = <<nAbcU, nAbc, nAb, nAbcCom>>
  /\ clubs = {cC1}
  /\ memberships \in {{}, {<<cC1, nAbc>>, <<cC1, nAbcU>>}}
  /\ member_count = [c \in clubs |-> Cardinality({row \in memberships : row[1] = c})]
  /\ memberships0 = memberships
  /\ req = [r \in Reqs |-> IdleReq]
  /\ AggIdle
  /\ clubRows \in [clubs -> {BlankClubRow, StoredClubRow}]
  /\ auditLog \in AdminLogs
  /\ adm = IdleAdm
  /\ stmts = <<>>
  /\ LibIdle

NextAdmin ==
  \/ IssueCore(1)
  \/ Start(1)
  \/ CheckCategory(1)
  \/ Lookup(1)
  \/ Select(1)
  \/ Begin(1)
  \/ AddStep(1)
  \/ RemoveStep(1)
  \/ Commit(1)
  \/ QueryFail(1)
  \/ TxFail(1)
  \/ IssueCreate
  \/ CreateCategory
  \/ IssueUpdate
  \/ UpdateCategory
  \/ IssueActivity
  \/ ListActivity
  \/ IssueMembers
  \/ MembersPost
  \/ MembersDelete

SpecAdmin == InitAdmin /\ [][NextAdmin]_vars

\* ------------------------------------------------------------- rate limiter

\* The tables, the request slots and the aggregator where no step uses them.
coreVars == <<directory, clubs, memberships, member_count, memberships0, req,
              clubRows, auditLog, adm, stmts>>

DbIdle ==
  /\ directory = <<>>
  /\ clubs = {}
  /\ memberships = {}
  /\ member_count = [c \in clubs |-> 0]
  /\ memberships0 = {}
  /\ req = [r \in Reqs |-> IdleReq]
  /\ CatIdle
  /\ AggIdle

CLEANUP_INTERVAL_MS == 5 * 60 * 1000

\* Bounds of the limiter specification: calls made, clock advances, the
\* largest limit.
MaxCalls == 4
MaxTicks == 3
MaxLimit == 2

\* cleanup(): every CLEANUP_INTERVAL_MS, drop the records whose window is over.
cleanup(s) ==
  IF s.now - s.lastCleanup < CLEANUP_INTERVAL_MS THEN s
  ELSE [s EXCEPT !.lastCleanup = s.now,
                 !.store = [key \in {k \in DOMAIN s.store : ~(s.now > s.store[k].resetAt)}
                              |-> s.store[key]]]

\* record.count >= limit, with the comparison strict.
ExhaustedOffByOne(record, limit) == record.count > limit

\* record.count >= limit
Exhausted(record, limit) == record.count >= limit

\* The store with a record set.
StoreSet(store, key, record) ==
  [k \in DOMAIN store \cup {key} |-> IF k = key THEN record ELSE store[k]]

\* rateLimit(identifier, limit, windowMs): the limiter after the call and
\* the RateLimitResult.
rateLimit(s0, identifier, limit, windowMs) ==
  LET s == cleanup(s0)
      now == s.now
      key == identifier
  IN IF key \notin DOMAIN s.store \/ now > s.store[key].resetAt
       THEN LET resetAt == now + windowMs
            IN [state |-> [s EXCEPT !.store = StoreSet(s.store, key,
                                                 [count |-> 1, resetAt |-> resetAt])],
                result |-> [success |-> TRUE, remaining |-> limit - 1,
                            resetAt |-> resetAt]]
     ELSE IF Exhausted(s.store[key], limit)
       THEN [state |-> s,
             result |-> [success |-> FALSE, remaining |-> 0,
                         resetAt |-> s.store[key].resetAt]]
     ELSE LET record == [s.store[key] EXCEPT !.count = @ + 1]
          IN [state |-> [s EXCEPT !.store = StoreSet(s.store, key, record)],
              result |-> [success |-> TRUE, remaining |-> limit - record.count,
                          resetAt |-> record.resetAt]]

Identifiers == {"ip1", "ip2"}

\* A caller of rateLimit with one limit and one window, as rateLimiters has.
LimiterCall(identifier) ==
  /\ rl.pc = "run"
  /\ Len(rl.calls) < MaxCalls
  /\ LET out == rateLimit(rl, identifier, rl.limit, rl.windowMs)
     IN rl' = [out.state EXCEPT !.calls =
                 Append(rl.calls,
                        [identifier |-> identifier, at |-> rl.now,
                         success |-> out.result.success,
                         remaining |-> out.result.remaining,
                         resetAt |-> out.result.resetAt])]
  /\ UNCHANGED coreVars
  /\ UNCHANGED aggVars
  /\ UNCHANGED <<mw, jar, norm, form, tx>>

\* Date.now() moves on: by a millisecond, or past the cleanup interval.
LimiterAdvance ==
  /\ rl.pc = "run"
  /\ rl.ticks < MaxTicks
  /\ \E dt \in {1, CLEANUP_INTERVAL_MS} :
       rl' = [rl EXCEPT !.now = @ + dt, !.ticks = @ + 1]
  /\ UNCHANGED coreVars
  /\ UNCHANGED aggVars
  /\ UNCHANGED <<mw, jar, norm, form, tx>>

\* The module just loaded: lastCleanup = Date.now(), the store empty.
InitLimiter ==
  /\ DbIdle
  /\ \E limit \in 1..MaxLimit, windowMs \in {2, 3} :
       rl = [pc |-> "run", now |-> 0, lastCleanup |-> 0, store |-> <<>>,
             calls |-> <<>>, ticks |-> 0, limit |-> limit, windowMs |-> windowMs]
  /\ mw = IdleMiddleware /\ jar = IdleBrowser
  /\ norm = IdleNorm /\ form = IdleForm /\ tx = IdleTx

NextLimiter ==
  \/ \E identifier \in Identifiers : LimiterCall(identifier)
  \/ LimiterAdvance

SpecLimiter == InitLimiter /\ [][NextLimiter]_vars

\* --------------------------------------------------------------- middleware

RATE_LIMITS ==
  [auth |-> [limit |-> 50, windowMs |-> 60 * 1000],
   write |-> [limit |-> 150, windowMs |-> 60 * 1000],
   api |-> [limit |-> 300, windowMs |-> 60 * 1000]]

\* Bounds of the middleware specification: requests other than those of the
\* first client to the auth endpoints, and clock advances.
MaxOther == 1
MaxMwTicks == 1

LocalIp == <<"1", "2", "7", ".", "0", ".", "0", ".", "1">>

\* getClientIp: the first entry of x-forwarded-for, else x-real-ip, else
\* cf-connecting-ip, else 127.0.0.1.
getClientIp(headers) ==
  IF Truthy(headers.forwardedFor) THEN Trim(SplitOn(headers.forwardedFor, ",")[1])
  ELSE IF Truthy(headers.realIp) THEN headers.realIp
  ELSE IF Truthy(headers.cfIp) THEN headers.cfIp
  ELSE LocalIp

\* pathname.startsWith(prefix), a pathname being its segments and a prefix
\* the segments before its closing slash.
PathStartsWith(pathname, prefix) ==
  Len(pathname) > Len(prefix) /\ SubSeq(pathname, 1, Len(prefix)) = prefix

getRateLimitConfig(pathname) ==
  IF PathStartsWith(pathname, <<"api", "auth">>) THEN RATE_LIMITS.auth
  ELSE RATE_LIMITS.api

\* Math.ceil(ms / 1000)
CeilSeconds(ms) == IF ms <= 0 THEN -((-ms) \div 1000) ELSE (ms + 999) \div 1000

\* middleware(request): the limiter after the request and the response.
middleware(s, request) ==
  LET pathname == request.pathname
      ip == getClientIp(request.headers)
      config == getRateLimitConfig(pathname)
      isWriteOperation == request.method \in {"POST", "PUT", "DELETE"}
      isAuthEndpoint == PathStartsWith(pathname, <<"api", "auth">>)
      bucketKey == IF isAuthEndpoint THEN <<"auth", ip>>
                   ELSE IF isWriteOperation THEN <<"write", ip>>
                   ELSE <<"read", ip>>
      effectiveLimit == IF isWriteOperation THEN RATE_LIMITS.write.limit ELSE config.limit
      effectiveWindow == IF isWriteOperation THEN RATE_LIMITS.write.windowMs
                         ELSE config.windowMs
      out == rateLimit(s, bucketKey, effectiveLimit, effectiveWindow)
  IN IF ~PathStartsWith(pathname, <<"api">>)
       THEN [state |-> s,
             response |-> [status |-> 200, limit |-> NoCount, remaining |-> NoCount,
                           retryAfter |-> NoCount]]
     ELSE IF ~out.result.success
       THEN [state |-> out.state,
             response |-> [status |-> 429, limit |-> effectiveLimit, remaining |-> 0,
                           retryAfter |-> CeilSeconds(out.result.resetAt - out.state.now)]]
     ELSE [state |-> out.state,
           response |-> [status |-> 200, limit |-> effectiveLimit,
                         remaining |-> out.result.remaining, retryAfter |-> NoCount]]

\* Request headers: a proxy chain from client a, client b by x-real-ip or by
\* cf-connecting-ip, and none.
MwHeaders ==
  {[forwardedFor |-> <<"a", ",", " ", "b">>, realIp |-> <<"c">>, cfIp |-> NULL],
   [forwardedFor |-> NULL, realIp |-> <<"b">>, cfIp |-> <<"c">>],
   [forwardedFor |-> NULL, realIp |-> NULL, cfIp |-> <<"b">>],
   [forwardedFor |-> NULL, realIp |-> NULL, cfIp |-> NULL]}

MwPaths ==
  {<<"api", "auth", "verify">>, <<"api", "auth">>, <<"api", "cats">>, <<"categories">>}

ClientIps == {getClientIp(h) : h \in MwHeaders}

\* The request is one of client a to an auth endpoint.
MainTraffic(request) ==
  /\ getClientIp(request.headers) = <<"a">>
  /\ PathStartsWith(request.pathname, <<"api", "auth">>)

\* A request passes the middleware. The history counts, per client, the
\* requests to auth endpoints let through since the first of them that came
\* after the minute of the one before was over.
Request ==
  /\ mw.pc = "run"
  /\ \E headers \in MwHeaders, pathname \in MwPaths, method \in {"GET", "POST"} :
       LET request == [headers |-> headers, pathname |-> pathname, method |-> method]
           ip == getClientIp(headers)
           out == middleware(rl, request)
           old == mw.passed[ip]
           counted == /\ PathStartsWith(pathname, <<"api", "auth">>)
                      /\ out.response.status # 429
       IN /\ IF MainTraffic(request) THEN TRUE ELSE mw.others < MaxOther
          /\ rl' = out.state
          /\ mw' = [mw EXCEPT
               !.last = [ip |-> ip, pathname |-> pathname, method |-> method,
                         response |-> out.response],
               !.others = IF MainTraffic(request) THEN @ ELSE @ + 1,
               !.passed[ip] =
                 IF ~counted THEN old
                 ELSE IF old.count = 0 \/ rl.now > old.until
                   THEN [count |-> 1, until |-> rl.now + RATE_LIMITS.auth.windowMs]
                 ELSE [old EXCEPT !.count = @ + 1]]
  /\ UNCHANGED coreVars
  /\ UNCHANGED aggVars
  /\ UNCHANGED <<jar, norm, form, tx>>

\* Date.now() moves on: by a millisecond, or past the window.
MwAdvance ==
  /\ mw.pc = "run"
  /\ rl.ticks < MaxMwTicks
  /\ \E dt \in {1, RATE_LIMITS.auth.windowMs + 1} :
       rl' = [rl EXCEPT !.now = @ + dt, !.ticks = @ + 1]
  /\ UNCHANGED mw
  /\ UNCHANGED coreVars
  /\ UNCHANGED aggVars
  /\ UNCHANGED <<jar, norm, form, tx>>

NoRequest ==
  [ip |-> <<>>, pathname |-> <<>>, method |-> "",
   response |-> [status |-> 0, limit |-> NoCount, remaining |-> NoCount,
                 retryAfter |-> NoCount]]

InitMiddleware ==
  /\ DbIdle
  /\ rl = IdleLimiter
  /\ mw = [pc |-> "run", last |-> NoRequest, others |-> 0,
           passed |-> [ip \in ClientIps |-> [count |-> 0, until |-> 0]]]
  /\ jar = IdleBrowser /\ norm = IdleNorm /\ form = IdleForm /\ tx = IdleTx

NextMiddleware ==
  \/ Request
  \/ MwAdvance

SpecMiddleware == InitMiddleware /\ [][NextMiddleware]_vars

\* ------------------------------------------------- session cookie (browser)

\* Bound of the session specification: logout requests in flight.
MaxLogouts == 1

NoCookie == [present |-> FALSE, value |-> "", httpOnly |-> FALSE, secure |-> FALSE]

\* The browser's cookie store on a Set-Cookie header of a response: a Secure
\* cookie is refused on an insecure origin, a cookie of max-age 0 removes the
\* stored one, any other replaces it.
StoreFromHttp(cookie, new, secureOrigin) ==
  IF new.secure /\ ~secureOrigin THEN cookie
  ELSE IF new.maxAge = 0 THEN NoCookie
  ELSE [present |-> TRUE, value |-> new.value, httpOnly |-> new.httpOnly,
        secure |-> new.secure]

\* The browser's cookie store on an assignment to document.cookie: it is
\* ignored while a stored cookie of the name is httpOnly; what a script
\* stores is never httpOnly.
StoreFromScript(cookie, new) ==
  IF cookie.present /\ cookie.httpOnly THEN cookie
  ELSE IF new.maxAge = 0 THEN NoCookie
  ELSE [present |-> TRUE, value |-> new.value, httpOnly |-> FALSE, secure |-> FALSE]

WEEK_IN_SECONDS == 60 * 60 * 24 * 7

\* The session token the Grails API issues to the signer of a verified
\* message.
GrailsToken(address) ==
  IF address = aAdmin THEN "tokAdmin"
  ELSE IF address = aAdmin2 THEN "tokAdmin2"
  ELSE "tokUser"

\* POST /api/auth/verify: the response and the cookie it sets, if any.
VerifyRoute(address, grailsOk, production) ==
  IF ~grailsOk THEN [ok |-> FALSE, token |-> "", setCookie |-> FALSE, cookie |-> NoCookie]
  ELSE IF ~isAdmin(address)
    THEN [ok |-> FALSE, token |-> "", setCookie |-> FALSE, cookie |-> NoCookie]
  ELSE [ok |-> TRUE, token |-> GrailsToken(address), setCookie |-> TRUE,
        cookie |-> [value |-> GrailsToken(address), httpOnly |-> TRUE,
                    secure |-> production, maxAge |-> WEEK_IN_SECONDS]]

\* The logout route's answer clears the server's cookie.
LogoutCookie(production) ==
  [value |-> "", httpOnly |-> TRUE, secure |-> production, maxAge |-> 0]

ScriptDelete == [value |-> "", maxAge |-> 0]

\* No answer of the verify endpoint awaits its continuation.
NoVerifyRes == [pending |-> FALSE, success |-> FALSE, token |-> ""]

Wallets == {aAdmin, aAdmin2, aUser}

\* The wallet's account becomes `address` and the effect of useAuth runs.
AddressChange(address) ==
  /\ jar.pc = "run"
  /\ address # jar.address
  /\ IF jar.currAddress # NULL /\ ToLowerCase(address) # ToLowerCase(jar.currAddress)
       THEN /\ jar.logouts < MaxLogouts
            /\ jar' = [jar EXCEPT !.address = address, !.currAddress = address,
                                  !.logouts = @ + 1,
                                  !.cookie = StoreFromScript(@, ScriptDelete)]
       ELSE jar' = [jar EXCEPT !.address = address, !.currAddress = address]
  /\ UNCHANGED coreVars
  /\ UNCHANGED aggVars
  /\ UNCHANGED <<rl, mw, norm, form, tx>>

\* An answer to a logout request reaches the browser.
LogoutAnswer ==
  /\ jar.pc = "run"
  /\ jar.logouts > 0
  /\ jar' = [jar EXCEPT !.logouts = @ - 1,
                        !.cookie = StoreFromHttp(@, LogoutCookie(jar.production),
                                                 jar.secureOrigin)]
  /\ UNCHANGED coreVars
  /\ UNCHANGED aggVars
  /\ UNCHANGED <<rl, mw, norm, form, tx>>

\* verify up to its await: the signed message is posted, and the browser
\* stores the cookie of the answer.
VerifySend ==
  /\ jar.pc = "run"
  /\ jar.address # NULL
  /\ ~jar.verifyRes.pending
  /\ \E grailsOk \in BOOLEAN :
       LET res == VerifyRoute(jar.address, grailsOk, jar.production)
       IN jar' = [jar EXCEPT
            !.verifyRes = [pending |-> TRUE, success |-> res.ok, token |-> res.token],
            !.cookie = IF res.setCookie
                         THEN StoreFromHttp(@, res.cookie, jar.secureOrigin)
                         ELSE @]
  /\ UNCHANGED coreVars
  /\ UNCHANGED aggVars
  /\ UNCHANGED <<rl, mw, norm, form, tx>>

\* verify after its await.
VerifyResume ==
  /\ jar.pc = "run"
  /\ jar.verifyRes.pending
  /\ jar' = [jar EXCEPT
       !.verifyRes = NoVerifyRes,
       !.cookie = IF jar.verifyRes.success /\ jar.verifyRes.token # ""
                    THEN StoreFromScript(@, [value |-> jar.verifyRes.token,
                                             maxAge |-> WEEK_IN_SECONDS])
                    ELSE @]
  /\ UNCHANGED coreVars
  /\ UNCHANGED aggVars
  /\ UNCHANGED <<rl, mw, norm, form, tx>>

\* signOut: the wallet is disconnected, logout is awaited, the script
\* deletes its cookie.
SignOut ==
  /\ jar.pc = "run"
  /\ jar.address # NULL
  /\ jar' = [jar EXCEPT
       !.address = NULL, !.currAddress = NULL,
       !.cookie = StoreFromScript(
                    StoreFromHttp(@, LogoutCookie(jar.production), jar.secureOrigin),
                    ScriptDelete)]
  /\ UNCHANGED coreVars
  /\ UNCHANGED aggVars
  /\ UNCHANGED <<rl, mw, norm, form, tx>>

InitSession ==
  /\ DbIdle
  /\ rl = IdleLimiter /\ mw = IdleMiddleware
  /\ \E production \in BOOLEAN, secureOrigin \in BOOLEAN :
       jar = [pc |-> "run", production |-> production, secureOrigin |-> secureOrigin,
              address |-> NULL, currAddress |-> NULL, cookie |-> NoCookie,
              verifyRes |-> NoVerifyRes, logouts |-> 0]
  /\ norm = IdleNorm /\ form = IdleForm /\ tx = IdleTx

NextSession ==
  \/ \E address \in Wallets : AddressChange(address)
  \/ LogoutAnswer
  \/ VerifySend
  \/ VerifyResume
  \/ SignOut

SpecSession == InitSession /\ [][NextSession]_vars

\* ------------------------------------------------- normalization, repeated

\* Bound of the normalization specification: the length of an input name.
MaxNameLen == 4

NormChars == {" ", "!", ".", "A", "B", "a"}

\* normalizeEnsName is applied to the input name.
NormalizeOnce ==
  /\ norm.pc = "input"
  /\ norm' = [norm EXCEPT !.pc = "once", !.once = normalizeEnsName(norm.name)]
  /\ UNCHANGED coreVars
  /\ UNCHANGED aggVars
  /\ UNCHANGED <<rl, mw, jar, form, tx>>

\* normalizeEnsName is applied to its own result.
NormalizeTwice ==
  /\ norm.pc = "once"
  /\ norm.once # NULL
  /\ norm' = [norm EXCEPT !.pc = "twice", !.twice = normalizeEnsName(norm.once)]
  /\ UNCHANGED coreVars
  /\ UNCHANGED aggVars
  /\ UNCHANGED <<rl, mw, jar, form, tx>>

InitNorm ==
  /\ DbIdle
  /\ rl = IdleLimiter /\ mw = IdleMiddleware /\ jar = IdleBrowser
  /\ \E name \in SeqsUpTo(NormChars, 0, MaxNameLen) :
       norm = [pc |-> "input", name |-> name, once |-> NULL, twice |-> NULL]
  /\ form = IdleForm /\ tx = IdleTx

NextNorm ==
  \/ NormalizeOnce
  \/ NormalizeTwice

SpecNorm == InitNorm /\ [][NextNorm]_vars

\* ------------------------------------------------------------ bulk add form

\* Bound of the form specification: the lines of the text area.
MaxLines == 2

\* String.prototype.lastIndexOf for one character, positions from 1; 0 for
\* JavaScript's -1.
LastIndexOf(s, c) ==
  IF \A k \in 1..Len(s) : s[k] # c THEN 0
  ELSE CHOOSE k \in 1..Len(s) : s[k] = c /\ \A j \in (k + 1)..Len(s) : s[j] # c

\* String.prototype.replace with a string pattern: the first occurrence.
ReplaceFirst(s, pattern, replacement) ==
  LET starts == {k \in 1..(Len(s) - Len(pattern) + 1) :
                   SubSeq(s, k, k + Len(pattern) - 1) = pattern}
  IN IF starts = {} THEN s
     ELSE LET p == CHOOSE k \in starts : \A j \in starts : k <= j
          IN SubSeq(s, 1, p - 1) \o replacement \o SubSeq(s, p + Len(pattern), Len(s))

\* isValid accepting every name that normalizes.
IsValidWhenNormalizable(normalized, fullName) == normalized # NULL

\* Strict: name must equal its normalized form.
IsValidInput(normalized, fullName) == normalized # NULL /\ normalized = fullName

\* inputName with .eth added if missing.
FullName(inputName) == IF EndsWith(inputName, DotEth) THEN inputName ELSE inputName \o DotEth

\* One element of parsedNames.
ParseLine(inputName) ==
  LET dotIndex == LastIndexOf(inputName, ".")
      tld == IF dotIndex = 0 THEN <<>> ELSE SubSeq(inputName, dotIndex, Len(inputName))
      fullName == FullName(inputName)
      normalized == normalizeEnsName(fullName)
  IN IF dotIndex # 0 /\ tld # DotEth
       THEN [original |-> inputName, normalized |-> NULL, isValid |-> FALSE,
             reason |-> [kind |-> "invalid TLD", text |-> tld]]
     ELSE [original |-> inputName, normalized |-> normalized,
           isValid |-> IsValidInput(normalized, fullName),
           reason |-> IF normalized = NULL
                        THEN [kind |-> "invalid ENS name", text |-> <<>>]
                      ELSE IF normalized # fullName
                        THEN [kind |-> "must be lowercase",
                              text |-> ReplaceFirst(normalized, DotEth, <<>>)]
                      ELSE [kind |-> "null", text |-> <<>>]]

\* newNames.split('\n').map(trim).filter(non-empty)
InputLines(newNames) ==
  LET split == SplitOn(newNames, "\n")
      trimmed == [k \in 1..Len(split) |-> Trim(split[k])]
  IN SelectSeq(trimmed, LAMBDA n : Len(n) > 0)

parsedNames(newNames) ==
  LET lines == InputLines(newNames)
  IN [k \in 1..Len(lines) |-> ParseLine(lines[k])]

hasInvalidInputNames(newNames) ==
  Len(SelectSeq(parsedNames(newNames), LAMBDA n : ~n.isValid)) > 0

ClosedModal == [isOpen |-> FALSE, type |-> "add", names |-> <<>>]

NoAddRequest == [sent |-> FALSE, names |-> <<>>, newNames |-> <<>>]

\* The lines an operator types.
TypedLines ==
  {nAbc, <<"a", "b", "c">>, nAbcU, <<" ">> \o nAbc \o <<" ">>, nBad, nAbcCom,
   <<"A", ".", "b">>, <<>>}

RECURSIVE JoinLines(_)
JoinLines(lines) ==
  IF lines = <<>> THEN <<>>
  ELSE IF Len(lines) = 1 THEN lines[1]
  ELSE lines[1] \o <<"\n">> \o JoinLines(Tail(lines))

TypedTexts == {JoinLines(lines) : lines \in SeqsUpTo(TypedLines, 0, MaxLines)}

\* The text area changes; the confirmation dialog is closed. The history
\* keeps the last request until then.
SetNewNames(text) ==
  /\ form.pc = "run"
  /\ ~form.confirmModal.isOpen
  /\ text # form.newNames
  /\ form' = [form EXCEPT !.newNames = text, !.request = NoAddRequest]
  /\ UNCHANGED coreVars
  /\ UNCHANGED aggVars
  /\ UNCHANGED <<rl, mw, jar, norm, tx>>

\* handleAddNames.
HandleAddNames ==
  /\ form.pc = "run"
  /\ ~form.confirmModal.isOpen
  /\ LET parsed == parsedNames(form.newNames)
         valid == SelectSeq(parsed, LAMBDA n : n.isValid /\ Truthy(n.normalized))
         validNames == [k \in 1..Len(valid) |-> valid[k].normalized]
     IN IF Len(parsed) = 0
          THEN form' = [form EXCEPT !.error = "Please enter at least one ENS name"]
        ELSE IF hasInvalidInputNames(form.newNames)
          THEN form' = [form EXCEPT !.error = "Please fix invalid names before adding"]
        ELSE form' = [form EXCEPT
               !.error = "",
               !.confirmModal = [isOpen |-> TRUE, type |-> "add", names |-> validNames]]
  /\ UNCHANGED coreVars
  /\ UNCHANGED aggVars
  /\ UNCHANGED <<rl, mw, jar, norm, tx>>

\* handleConfirmAction for an add, with the mutation's callbacks: the request
\* is sent, the dialog closes, success empties the text area.
ConfirmAdd ==
  /\ form.pc = "run"
  /\ form.confirmModal.isOpen /\ form.confirmModal.type = "add"
  /\ \E success \in BOOLEAN :
       form' = [form EXCEPT
         !.request = [sent |-> TRUE, names |-> form.confirmModal.names,
                      newNames |-> form.newNames],
         !.confirmModal = ClosedModal,
         !.newNames = IF success THEN <<>> ELSE @,
         !.error = IF success THEN @ ELSE "Failed to add names"]
  /\ UNCHANGED coreVars
  /\ UNCHANGED aggVars
  /\ UNCHANGED <<rl, mw, jar, norm, tx>>

\* The dialog is dismissed.
CloseModal ==
  /\ form.pc = "run"
  /\ form.confirmModal.isOpen
  /\ form' = [form EXCEPT !.confirmModal = ClosedModal]
  /\ UNCHANGED coreVars
  /\ UNCHANGED aggVars
  /\ UNCHANGED <<rl, mw, jar, norm, tx>>

InitForm ==
  /\ DbIdle
  /\ rl = IdleLimiter /\ mw = IdleMiddleware /\ jar = IdleBrowser /\ norm = IdleNorm
  /\ form = [pc |-> "run", newNames |-> <<>>, error |-> "",
             confirmModal |-> ClosedModal, request |-> NoAddRequest]
  /\ tx = IdleTx

NextForm ==
  \/ \E text \in TypedTexts : SetNewNames(text)
  \/ HandleAddNames
  \/ ConfirmAdd
  \/ CloseModal

SpecForm == InitForm /\ [][NextForm]_vars

\* ------------------------------------------------------------- cleanup flow

\* The operator starts a scan of the category.
IssueScan ==
  /\ req[1].pc = "idle"
  /\ req' = [req EXCEPT ![1] =
       [IdleReq EXCEPT !.pc = "start", !.kind = "scan", !.cat = cC1,
                       !.token = "tokAdmin"]]
  /\ UNCHANGED <<directory, clubs, memberships, member_count, memberships0>>
  /\ UNCHANGED aggVars
  /\ UNCHANGED libVars
  /\ UNCHANGED catVars

\* The names of the scan results the operator can send for removal: one
\* entry's name, or every entry's when there are several.
RemovableSelections(invalidNames) ==
  {<<invalidNames[k].name>> : k \in 1..Len(invalidNames)}
    \cup (IF Len(invalidNames) > 1
            THEN {[k \in 1..Len(invalidNames) |-> invalidNames[k].name]}
          ELSE {})

\* handleRemoveInvalidNames, confirmed: a remove request for names of the
\* scan results.
IssueRemoveInvalid ==
  /\ req[1].pc = "done" /\ req[1].kind = "scan" /\ req[1].resp.status = 200
  /\ req[2].pc = "idle"
  /\ \E names \in RemovableSelections(req[1].resp.scanInvalid) :
       req' = [req EXCEPT ![2] =
         [IdleReq EXCEPT !.pc = "start", !.kind = "remove", !.cat = cC1,
                         !.names = names, !.token = "tokAdmin"]]
  /\ UNCHANGED <<directory, clubs, memberships, member_count, memberships0>>
  /\ UNCHANGED aggVars
  /\ UNCHANGED libVars
  /\ UNCHANGED catVars

InitCleanup ==
  /\ directory \in SeqDirectories
  /\ clubs = {cC1}
  /\ memberships \in SUBSET StoredRows
  /\ member_count = [c \in clubs |-> Cardinality({row \in memberships : row[1] = c})]
  /\ memberships0 = memberships
  /\ req = [r \in Reqs |-> IdleReq]
  /\ AggIdle
  /\ CatIdle
  /\ LibIdle

NextCleanup ==
  \/ IssueScan
  \/ IssueRemoveInvalid
  \/ \E r \in Reqs : Start(r)
  \/ \E r \in Reqs : CheckCategory(r)
  \/ Select(1)
  \/ Begin(2)
  \/ RemoveStep(2)
  \/ Commit(2)
  \/ \E r \in Reqs : QueryFail(r)
  \/ TxFail(2)

SpecCleanup == InitCleanup /\ [][NextCleanup]_vars

\* ------------------------------------------------------ transaction helpers

\* Bound of the transaction specification: the statements on the client
\* before the callback ends.
MaxStatements == 3

\* How a statement sent on the client can end: it succeeds, the server
\* rejects it, or the connection is lost.
QueryOutcomes == {"ok", "rejected", "lost"}

\* client.query(text) with the given fate, on a connection that may be gone
\* already: the promise resolves or rejects.
QueryResolves(t, outcome) == t.alive /\ outcome = "ok"

\* The connection after the statement.
AliveAfter(t, outcome) == t.alive /\ outcome # "lost"

\* finally: client.release()
ReleaseAlways(t) == t.released + 1

\* withTransaction(callback) or withActorTransaction(actorAddress, callback)
\* is called and pool.connect() hands out a client.
TxCall(fn, actorAddress) ==
  /\ tx.pc \in {"idle", "done"}
  /\ fn = "withTransaction" => actorAddress = NULL
  /\ fn = "withActorTransaction" => actorAddress # NULL
  /\ tx' = [pc |-> "begin", fn |-> fn, actorAddress |-> actorAddress, alive |-> TRUE,
            open |-> FALSE, actor |-> NULL, released |-> 0, callback |-> "none",
            error |-> "none", thrown |-> "none", statements |-> <<>>]
  /\ UNCHANGED coreVars
  /\ UNCHANGED aggVars
  /\ UNCHANGED <<rl, mw, jar, norm, form>>

\* await client.query('BEGIN')
TxBegin ==
  /\ tx.pc = "begin"
  /\ \E outcome \in QueryOutcomes :
       tx' = [tx EXCEPT
         !.statements = Append(@, "BEGIN"),
         !.alive = AliveAfter(tx, outcome),
         !.open = QueryResolves(tx, outcome),
         !.error = IF QueryResolves(tx, outcome) THEN @ ELSE "BEGIN",
         !.pc = IF ~QueryResolves(tx, outcome) THEN "rollback"
                ELSE IF tx.fn = "withActorTransaction" THEN "setConfig"
                ELSE "callback"]
  /\ UNCHANGED coreVars
  /\ UNCHANGED aggVars
  /\ UNCHANGED <<rl, mw, jar, norm, form>>

\* await client.query('SELECT set_config($1, $2, true)', ...)
TxSetConfig ==
  /\ tx.pc = "setConfig"
  /\ \E outcome \in QueryOutcomes :
       tx' = [tx EXCEPT
         !.statements = Append(@, "set_config"),
         !.alive = AliveAfter(tx, outcome),
         !.open = AliveAfter(tx, outcome),
         !.actor = IF QueryResolves(tx, outcome) THEN tx.actorAddress ELSE @,
         !.error = IF QueryResolves(tx, outcome) THEN @ ELSE "set_config",
         !.pc = IF QueryResolves(tx, outcome) THEN "callback" ELSE "rollback"]
  /\ UNCHANGED coreVars
  /\ UNCHANGED aggVars
  /\ UNCHANGED <<rl, mw, jar, norm, form>>

\* await callback(client), one step of it: a statement of the callback
\* succeeds and it goes on, it returns, or it throws an error of its own,
\* of a statement the server rejected or of a dropped connection.
TxCallback ==
  /\ tx.pc = "callback"
  /\ \E end \in {"continues", "returns", "throws"}, outcome \in QueryOutcomes :
       /\ end \in {"continues", "returns"} => outcome = "ok"
       /\ end = "continues" => Len(tx.statements) < MaxStatements
       /\ tx' = [tx EXCEPT
            !.statements = Append(@, IF end = "continues" THEN "query" ELSE end),
            !.alive = AliveAfter(tx, outcome),
            !.open = AliveAfter(tx, outcome),
            !.callback = IF end = "continues" THEN @ ELSE end,
            !.error = IF end = "throws" THEN "callback" ELSE @,
            !.pc = IF end = "throws" THEN "rollback"
                   ELSE IF end = "returns" THEN "commit"
                   ELSE "callback"]
  /\ UNCHANGED coreVars
  /\ UNCHANGED aggVars
  /\ UNCHANGED <<rl, mw, jar, norm, form>>

\* await client.query('COMMIT'): the transaction is over whether the server
\* commits or rejects; the transaction-local actor setting goes with it.
TxCommit ==
  /\ tx.pc = "commit"
  /\ \E outcome \in QueryOutcomes :
       tx' = [tx EXCEPT
         !.statements = Append(@, "COMMIT"),
         !.alive = AliveAfter(tx, outcome),
         !.open = FALSE,
         !.actor = NULL,
         !.error = IF QueryResolves(tx, outcome) THEN @ ELSE "COMMIT",
         !.pc = IF QueryResolves(tx, outcome) THEN "release" ELSE "rollback"]
  /\ UNCHANGED coreVars
  /\ UNCHANGED aggVars
  /\ UNCHANGED <<rl, mw, jar, norm, form>>

\* catch: await client.query('ROLLBACK'); throw error. The server never
\* rejects a ROLLBACK; it fails when the connection is gone, and then its
\* own error leaves the catch block.
TxRollback ==
  /\ tx.pc = "rollback"
  /\ \E outcome \in {"ok", "lost"} :
       tx' = [tx EXCEPT
         !.statements = Append(@, "ROLLBACK"),
         !.alive = AliveAfter(tx, outcome),
         !.open = FALSE,
         !.actor = NULL,
         !.thrown = IF QueryResolves(tx, outcome) THEN tx.error ELSE "ROLLBACK",
         !.pc = "release"]
  /\ UNCHANGED coreVars
  /\ UNCHANGED aggVars
  /\ UNCHANGED <<rl, mw, jar, norm, form>>

\* finally: client.release(), and the call returns or throws.
TxRelease ==
  /\ tx.pc = "release"
  /\ tx' = [tx EXCEPT !.released = ReleaseAlways(tx), !.pc = "done"]
  /\ UNCHANGED coreVars
  /\ UNCHANGED aggVars
  /\ UNCHANGED <<rl, mw, jar, norm, form>>

InitTx ==
  /\ DbIdle
  /\ rl = IdleLimiter /\ mw = IdleMiddleware /\ jar = IdleBrowser /\ norm = IdleNorm
  /\ form = IdleForm
  /\ tx = IdleTx

NextTx ==
  \/ \E fn \in {"withTransaction", "withActorTransaction"},
        actorAddress \in {NULL, aAdmin, aAdmin2} : TxCall(fn, actorAddress)
  \/ TxBegin
  \/ TxSetConfig
  \/ TxCallback
  \/ TxCommit
  \/ TxRollback
  \/ TxRelease

SpecTx == InitTx /\ [][NextTx]_vars


\* ------------------------------------------------------ aggregator properties

\* The grouping loop has gone through the whole page.
AggDone == variant # "none" /\ cursor > Len(rawEntries)

\* The columns of a snapshot pair whose values differ.
ChangedColumns(e) ==
  IF e.old_data = NoData \/ e.new_data = NoData THEN {}
  ELSE {key \in DOMAIN e.new_data : e.old_data[key] # e.new_data[key]}

IsCategoryUpdate(e) == e.table_name = "clubs" /\ e.operation = "UPDATE"
IsMembershipInsertOn(e, c) ==
  /\ e.table_name = "club_memberships" /\ e.operation = "INSERT"
  /\ Len(e.record_key) > Len(c)
  /\ SubSeq(e.record_key, 1, Len(c) + 1) = c \o <<":">>

\* The ids of the output, mains and sub-events, in output order.
RECURSIVE OutputIds(_)
OutputIds(g) ==
  IF g = <<>> THEN <<>>
  ELSE <<Head(g).main.id>> \o [k \in 1..Len(Head(g).subEvents) |-> Head(g).subEvents[k].id]
       \o OutputIds(Tail(g))

\* C7: a page of one Membership INSERT and one Category UPDATE of the same
\* category and actor, less than a second apart, the update changing only
\* member_count, gives exactly one grouped event: the membership add with the
\* update as its sub-event, in either order of the two entries.
C7_SuppressionAnyOrder ==
  \A m, u \in 1..2 :
    ( /\ AggDone /\ Len(rawEntries) = 2 /\ m # u
      /\ IsMembershipInsertOn(rawEntries[m], rawEntries[u].record_key)
      /\ IsCategoryUpdate(rawEntries[u])
      /\ ChangedColumns(rawEntries[u]) = {"member_count"}
      /\ rawEntries[m].actor_address = rawEntries[u].actor_address
      /\ Abs(rawEntries[m].created_at - rawEntries[u].created_at) < GROUP_WINDOW_MS )
    => /\ Len(grouped) = 1
       /\ grouped[1].main = rawEntries[m]
       /\ grouped[1].subEvents = <<rawEntries[u]>>

\* C8: a Category UPDATE whose description changed is the main entry of a
\* grouped event of its own and is the sub-event of no grouped event,
\* whatever else the page holds.
C8_MeaningfulUpdateStandalone ==
  AggDone =>
    \A k \in 1..Len(rawEntries) :
      ( /\ IsCategoryUpdate(rawEntries[k])
        /\ "description" \in ChangedColumns(rawEntries[k]) )
      => /\ \E g \in 1..Len(grouped) :
              grouped[g].main = rawEntries[k] /\ grouped[g].subEvents = <<>>
         /\ \A g \in 1..Len(grouped) : rawEntries[k] \notin Range(grouped[g].subEvents)

\* C9: no entry id occurs twice among the main entries and sub-events of the
\* output, at any point of the grouping loop; in particular an entry absorbed
\* as a sub-event is not a main entry as well.
C9_ConsumedAtMostOnce ==
  LET ids == OutputIds(grouped)
  IN \A i, j \in 1..Len(ids) : i # j => ids[i] # ids[j]

\* The loop has passed an entry that an earlier membership entry absorbed.
C9_Witness ==
  /\ AggDone
  /\ \E g \in 1..Len(grouped), k \in 1..Len(rawEntries) :
       /\ grouped[g].subEvents = <<rawEntries[k]>>
       /\ \E j \in 1..(k - 1) : rawEntries[j] = grouped[g].main
       /\ "description" \in ChangedColumns(rawEntries[k])

\* ------------------------------------------- reconciler and scanner properties

\* The request of slot r is answered.
Done(r) == req[r].pc = "done"

\* The caller of slot r is a signed-in admin.
Authorized(r) == req[r].token # NoToken /\ verifyAdmin(req[r].token).isAdmin

\* The rows of category c among rows.
RowsOf(rows, c) == {row \in rows : row[1] = c}

\* The name is known to the name directory, compared case-insensitively.
IsKnown(n) == \E k \in 1..Len(directory) : ToLowerCase(directory[k]) = ToLowerCase(n)

\* The entry of an add batch is invalid: it fails normalization or its
\* normalized form is not a known ENS name.
InvalidEntry(n) == normalizeEnsName(n) = NULL \/ ~IsKnown(normalizeEnsName(n))

\* How an invalid entry is reported: verbatim when it fails normalization,
\* normalized when it is unknown.
ReportedAs(n) == IF normalizeEnsName(n) = NULL THEN n ELSE normalizeEnsName(n)

\* C1: two add requests for the same valid, known name on the same category,
\* the name not a member before, run in any interleaving: both succeed, they
\* report added=1 and skipped=1 between them, and exactly one row for the
\* pair exists afterwards.
C1_IdempotentAdd ==
  \A n \in {nAbc, nAb} :
    ( /\ \A r \in {1, 2} :
           /\ Done(r) /\ req[r].kind = "add" /\ req[r].cat = cC1
           /\ req[r].names = <<n>> /\ req[r].resp.status # 500
      /\ \A o \in Reqs \ {1, 2} : req[o].pc = "idle"
      /\ \A row \in RowsOf(memberships0, cC1) : ToLowerCase(row[2]) # ToLowerCase(n) )
    => /\ \A r \in {1, 2} : req[r].resp.status = 200 /\ req[r].resp.success = "true"
       /\ req[1].resp.added + req[2].resp.added = 1
       /\ req[1].resp.skipped + req[2].resp.skipped = 1
       /\ Cardinality({row \in RowsOf(memberships, cC1) : row[2] = n}) = 1

\* C2: an add batch with at least one invalid entry writes no Membership row,
\* whoever sends it and whatever else happens to it; sent by an admin within
\* the size cap to an existing category and met by no database error, it is
\* answered 400 with exactly the invalid entries listed in invalidNames, so
\* that the entries not listed are the valid ones.
C2_AllOrNothingGate ==
  \A r \in Reqs :
    ( /\ Done(r) /\ req[r].kind = "add"
      /\ \E n \in Range(req[r].names) : InvalidEntry(n) )
    => /\ req[r].wrote = {} /\ req[r].erased = {}
       /\ memberships = memberships0
       /\ ( /\ Authorized(r) /\ req[r].cat \in clubs
            /\ Len(req[r].names) <= MAX_NAMES_PER_REQUEST
            /\ req[r].resp.status # 500 )
          => /\ req[r].resp.status = 400
             /\ req[r].resp.success # "true"
             /\ req[r].resp.added = NoCount
             /\ "invalidNames" \in req[r].resp.fields
             /\ Range(req[r].resp.invalidNames) =
                  {ReportedAs(n) : n \in {e \in Range(req[r].names) : InvalidEntry(e)}}

\* A batch of one valid name that is not yet a member and one invalid entry
\* was rejected at the gate.
C2_Witness ==
  /\ Done(1) /\ req[1].kind = "add" /\ Authorized(1) /\ req[1].cat \in clubs
  /\ req[1].names = <<nAbc, nBad>>
  /\ RowsOf(memberships0, cC1) = {}
  /\ req[1].resp.status = 400
  /\ req[1].resp.invalidNames = <<nBad>>

\* C3: an add or remove whose transaction met an error, at any statement, is
\* answered with the generic 500 carrying no counts, and the Membership rows
\* and the member counts are what they were before the request.
C3_TransactionalFailure ==
  \A r \in Reqs :
    ( /\ Done(r) /\ req[r].kind \in {"add", "remove"}
      /\ req[r].resp.status = 500 )
    => /\ memberships = memberships0
       /\ \A c \in clubs : member_count[c] = Cardinality(RowsOf(memberships0, c))
       /\ req[r].wrote = {} /\ req[r].erased = {}
       /\ req[r].ins = {} /\ req[r].del = {}
       /\ req[r].resp.fields = {"error"}
       /\ req[r].resp.added = NoCount /\ req[r].resp.skipped = NoCount
       /\ req[r].resp.removed = NoCount
       /\ req[r].resp.error \in {"Failed to add members", "Failed to remove members"}

\* An add failed after one of its inserts had gone through, and before its
\* last statement.
C3_Witness ==
  /\ Done(1) /\ req[1].kind = "add" /\ req[1].resp.status = 500
  /\ req[1].added = 1 /\ req[1].idx = 2 /\ Len(req[1].dbNames) > 1

C5_BatchCap ==
  \A r \in Reqs :
    ( Done(r) /\ req[r].kind = "add" /\ Authorized(r) )
    => /\ Len(req[r].names) > MAX_NAMES_PER_REQUEST
            => /\ req[r].resp.status = 400
               /\ req[r].resp.error = ErrMaxNames
               /\ req[r].resp.fields = {"error"}
               /\ req[r].dbCalls = 0
               /\ req[r].normalizedNames = <<>> /\ req[r].invalidEnsNames = <<>>
               /\ req[r].wrote = {} /\ memberships = memberships0
       /\ Len(req[r].names) <= MAX_NAMES_PER_REQUEST
            => req[r].resp.error # ErrMaxNames

\* An oversized add by an admin was answered.
C5_Witness ==
  /\ Done(1) /\ req[1].kind = "add" /\ Authorized(1)
  /\ Len(req[1].names) = MAX_NAMES_PER_REQUEST + 1
  /\ req[1].resp.status = 400

\* C6: a remove request by an admin for one name that is not a member of the
\* existing category (compared case-insensitively), met by no database error,
\* succeeds with removed=0 and changes no row.
C6_IdempotentRemove ==
  \A r \in Reqs :
    ( /\ Done(r) /\ req[r].kind = "remove" /\ Authorized(r)
      /\ req[r].cat \in clubs /\ req[r].resp.status # 500
      /\ Len(req[r].names) = 1 /\ Trim(req[r].names[1]) # <<>>
      /\ \A row \in RowsOf(memberships0, req[r].cat) :
           ToLowerCase(row[2]) # ToLowerCase(req[r].names[1]) )
    => /\ req[r].resp.status = 200 /\ req[r].resp.success = "true"
       /\ req[r].resp.removed = 0
       /\ memberships = memberships0

\* C10: a scan reports a stored name iff it fails normalization or ends in
\* .eth with fewer than 3 characters before it, with the matching reason and
\* at most once; totalScanned is the number of memberships of the category
\* and invalidCount the length of invalidNames.
C10_ScannerClassification ==
  \A r \in Reqs :
    ( Done(r) /\ req[r].kind = "scan" /\ req[r].resp.status = 200 )
    => LET out == req[r].resp.scanInvalid
           stored == {row[2] : row \in RowsOf(memberships, req[r].cat)}
           failsNormalization(n) == normalizeEnsName(n) = NULL
           tooShort(n) == /\ Len(n) >= 4 /\ SubSeq(n, Len(n) - 3, Len(n)) = DotEth
                          /\ Len(n) - 4 < 3
       IN /\ \A n \in stored :
               (\E k \in 1..Len(out) : out[k].name = n)
                 <=> (failsNormalization(n) \/ tooShort(n))
          /\ \A k \in 1..Len(out) :
               /\ out[k].name \in stored
               /\ out[k].reason = IF failsNormalization(out[k].name)
                                    THEN "Failed ENS normalization" ELSE "Too short"
               /\ out[k].reason = "Too short" => out[k].chars = Len(out[k].name) - 4
          /\ \A j, k \in 1..Len(out) : j # k => out[j].name # out[k].name
          /\ req[r].resp.totalScanned = Cardinality(stored)
          /\ req[r].resp.invalidCount = Len(out)

\* A scan over ab.eth, a name that fails normalization, a good name and a
\* short name without .eth reported exactly the first two.
C10_Witness ==
  /\ Done(1) /\ req[1].kind = "scan" /\ req[1].resp.status = 200
  /\ RowsOf(memberships, cC1) =
       {<<cC1, nAb>>, <<cC1, nBad>>, <<cC1, nAbc>>, <<cC1, nAbBare>>}
  /\ req[1].resp.invalidCount = 2 /\ req[1].resp.totalScanned = 4

\* C11: no step of a scan request, whatever its outcome, changes a
\* Membership row, a member count, a Category row, the name directory or the
\* audit log.
C11_ScannerNonMutation ==
  [][ (\E r \in Reqs : req'[r] # req[r] /\ req'[r].kind = "scan")
        => UNCHANGED <<memberships, member_count, clubs, clubRows, auditLog, directory>> ]_vars

\* A scan that found invalid names has answered, and the rows it reported
\* are still there.
C11_Witness ==
  /\ Done(1) /\ req[1].kind = "scan" /\ req[1].resp.status = 200
  /\ req[1].resp.invalidCount > 0
  /\ <<cC1, nBad>> \in memberships

\* C14 as stated: an admin's add or remove naming a category that does not
\* exist, met by no database error, is answered 404 and writes nothing, for
\* every non-empty names payload.
C14_NotFoundEveryPayload ==
  \A r \in Reqs :
    ( /\ Done(r) /\ req[r].kind \in {"add", "remove"} /\ Authorized(r)
      /\ req[r].cat \notin clubs /\ req[r].resp.status # 500
      /\ Len(req[r].names) >= 1 )
    => /\ req[r].resp.status = 404
       /\ req[r].wrote = {} /\ req[r].erased = {}
       /\ memberships = memberships0

\* C14 as amended: an admin's add or remove naming a category that does not
\* exist, with a names payload that passes the body checks (non-empty, at
\* most 1000 names, at least one of which normalizes) and met by no database
\* error, is answered 404 'Category not found' after the one category query
\* and writes nothing; a payload that fails the body checks is answered 400
\* before the category is looked up, and writes nothing either.
C14_NotFound ==
  \A r \in Reqs :
    ( /\ Done(r) /\ req[r].kind \in {"add", "remove"} /\ Authorized(r)
      /\ req[r].cat \notin clubs /\ req[r].resp.status # 500 )
    => /\ req[r].wrote = {} /\ req[r].erased = {}
       /\ memberships = memberships0
       /\ IF /\ Len(req[r].names) >= 1
             /\ Len(req[r].names) <= MAX_NAMES_PER_REQUEST
             /\ \E n \in Range(req[r].names) : normalizeEnsName(n) # NULL
            THEN /\ req[r].resp.status = 404
                 /\ req[r].resp.error = "Category not found"
                 /\ req[r].resp.fields = {"error"}
                 /\ req[r].dbCalls = 1
            ELSE req[r].resp.status = 400 /\ req[r].dbCalls = 0

\* An add of a valid and an invalid name to a missing category was answered
\* 404.
C14_Witness ==
  /\ Done(1) /\ req[1].kind = "add" /\ Authorized(1) /\ req[1].cat = cZZ
  /\ req[1].names = <<nAbc, nBad>>
  /\ req[1].resp.status = 404

\* The name has a TLD and it is not .eth.
HasOtherTld(n) ==
  /\ \E k \in 1..Len(n) : n[k] = "."
  /\ ~(Len(n) >= 4 /\ SubSeq(n, Len(n) - 3, Len(n)) = DotEth)

\* C15: in an admin's add that got as far as normalization, every entry with
\* a TLD other than .eth and every blank entry is among the normalization
\* failures, and no Membership row the request writes carries a name with a
\* TLD other than .eth.
C15_TldPolicy ==
  \A r \in Reqs :
    ( /\ Done(r) /\ req[r].kind = "add" /\ Authorized(r)
      /\ Len(req[r].names) >= 1 /\ Len(req[r].names) <= MAX_NAMES_PER_REQUEST
      /\ req[r].resp.status # 500 )
    => /\ \A n \in Range(req[r].names) :
            (HasOtherTld(Trim(n)) \/ Trim(n) = <<>>)
              => n \in Range(req[r].invalidEnsNames)
       /\ \A row \in req[r].wrote : ~HasOtherTld(row[2])

\* --------------------------------------------- properties of all the routes

AdmDone == adm.pc = "done"

\* The token resolves to an address of ADMIN_ADDRESSES, letter case apart.
TokenIsAdmin(token) ==
  /\ token # NoToken
  /\ verifyTokenAndGetAddress(token) # NULL
  /\ ToLowerCase(verifyTokenAndGetAddress(token)) \in Range(parseAdminAddresses)

\* No table differs from what it was before the request.
NothingWritten ==
  /\ memberships = memberships0
  /\ clubs = {cC1}
  /\ member_count = [c \in clubs |-> Cardinality(RowsOf(memberships0, c))]
  /\ stmts = <<>>

\* C12: a request without a session token is answered 401 and a request
\* whose token does not resolve to an admin address is answered 403, on the
\* invalid-names routes (add, remove, scan), on category create and update,
\* on the activity listing and on the members routes alike, and in both cases
\* the handler has made no database call and no table has changed.
C12_AuthShortCircuit ==
  /\ \A r \in Reqs :
       (Done(r) /\ ~TokenIsAdmin(req[r].token))
         => /\ req[r].resp.status = IF req[r].token = NoToken THEN 401 ELSE 403
            /\ req[r].dbCalls = 0
            /\ NothingWritten
  /\ (AdmDone /\ ~TokenIsAdmin(adm.token))
       => /\ adm.resp.status = IF adm.token = NoToken THEN 401 ELSE 403
          /\ adm.dbCalls = 0
          /\ NothingWritten

\* A category create with a well-formed new name by a signed-in caller who
\* is not an admin was answered 403.
C12_Witness ==
  /\ AdmDone /\ adm.kind = "create" /\ adm.token = "tokUser"
  /\ adm.name = <<"a", "b">>
  /\ adm.resp.status = 403

\* C13: every statement of an admin request that writes a Membership or a
\* Category ran in a transaction whose app.actor_address was the address the
\* request's token resolves to.
C13_ActorAttribution ==
  /\ \A k \in 1..Len(stmts) :
       /\ stmts[k].actor # NULL
       /\ stmts[k].actor = verifyTokenAndGetAddress(adm.token)
  /\ \A r \in Reqs :
       (req[r].ins \cup req[r].del # {})
         => /\ req[r].actor # NULL
            /\ req[r].actor = verifyTokenAndGetAddress(req[r].token)

\* A category name of 2 to 50 lowercase letters, digits and underscores.
ValidCategoryName(n) ==
  /\ n # NULL
  /\ Len(n) >= 2 /\ Len(n) <= 50
  /\ \A k \in 1..Len(n) : n[k] \in SlugChars

\* C16: a category create succeeds only for a name of 2 to 50 lowercase
\* letters, digits and underscores that no category has; every other create
\* is answered with an error and leaves the categories as they were.
C16_CategoryNameGrammar ==
  (AdmDone /\ adm.kind = "create")
    => /\ adm.resp.status = 201 => ValidCategoryName(adm.name) /\ adm.name # cC1
       /\ (TokenIsAdmin(adm.token) /\ ~ValidCategoryName(adm.name))
            => adm.resp.status \in {400, 500}
       /\ adm.resp.status # 201 => clubs = {cC1} /\ stmts = <<>>

\* The request carries a classification outside the vocabulary.
HasUnknownClassification ==
  /\ adm.classifications.t = "array"
  /\ \E k \in 1..Len(adm.classifications.items) :
       adm.classifications.items[k] \notin VALID_CLASSIFICATIONS

\* C17: an admin's category create or update that carries a classification
\* outside the vocabulary is answered with an error status and writes no
\* Category row.
C17_UnknownClassificationRejected ==
  ( /\ AdmDone /\ adm.kind \in {"create", "update"}
    /\ TokenIsAdmin(adm.token) /\ HasUnknownClassification )
    => /\ adm.resp.status >= 400
       /\ stmts = <<>>
       /\ clubs = {cC1}

\* The entry is about the category: its own row, or a membership of it.
EntryOfCategory(e, c) ==
  IF e.table_name = "clubs" THEN e.record_key = c
  ELSE /\ Len(e.record_key) > Len(c)
       /\ SubSeq(e.record_key, 1, Len(c) + 1) = c \o <<":">>

\* The entry is about the membership of the name.
EntryOfName(e, n) ==
  e.table_name = "club_memberships" /\ EndsWith(e.record_key, <<":">> \o n)

\* The entry satisfies every filter the request supplies; the request is
\* made one day and a millisecond after the oldest entry was written.
SatisfiesFilters(f, e) ==
  /\ ActivityWhere(f, e)
  /\ Truthy(f.category) => EntryOfCategory(e, f.category)
  /\ Truthy(f.name) => EntryOfName(e, f.name)
  /\ f.days # 0 => (24 * 60 * 60 * 1000 + 1) - e.created_at <= f.days * 24 * 60 * 60 * 1000

\* C18: every entry the activity listing returns satisfies every filter of
\* the request (table, operation, actor, hideSystem, category, name, days),
\* and the total it reports is the number of entries that satisfy them.
C18_AuditReadFiltering ==
  (AdmDone /\ adm.kind = "activity" /\ adm.resp.status = 200)
    => /\ \A k \in 1..Len(adm.resp.entries) :
            SatisfiesFilters(adm.filter, adm.resp.entries[k])
       /\ adm.resp.totalEntries =
            Cardinality({k \in 1..Len(auditLog) :
                           SatisfiesFilters(adm.filter, auditLog[k])})

\* C19: no statement of the application assigns clubs.member_count.
C19_CountNeverAssigned ==
  \A k \in 1..Len(stmts) : "member_count" \notin stmts[k].columns

\* C20: the removed count of a successful remove is the number of Membership
\* rows of the category before the request minus the number after it.
C20_RemovedIsRowsDeleted ==
  \A r \in Reqs :
    ( Done(r) /\ req[r].kind = "remove" /\ req[r].resp.status = 200 )
    => req[r].resp.removed =
         Cardinality(RowsOf(memberships0, req[r].cat))
           - Cardinality(RowsOf(memberships, req[r].cat))

\* ------------------------------------------------ properties of the limiter

\* The calls number i to j of the history that hold the identifier and were
\* let through.
SuccessesBetween(identifier, i, j) ==
  {k \in i..j : rl.calls[k].identifier = identifier /\ rl.calls[k].success}

\* C21: for every identifier, the calls let through within any interval
\* shorter than windowMs are at most `limit`.
C21_SlidingWindow ==
  rl.pc = "run" =>
    \A i, j \in 1..Len(rl.calls) :
      ( /\ i <= j
        /\ rl.calls[i].identifier = rl.calls[j].identifier
        /\ rl.calls[i].success /\ rl.calls[j].success
        /\ rl.calls[j].at - rl.calls[i].at < rl.windowMs )
      => Cardinality(SuccessesBetween(rl.calls[i].identifier, i, j)) <= rl.limit

\* The calls up to number k that belong to the same window as call k.
SameWindowUpTo(k) ==
  {j \in 1..k : /\ rl.calls[j].identifier = rl.calls[k].identifier
                /\ rl.calls[j].resetAt = rl.calls[k].resetAt}

\* The call before call k with the same identifier, 0 when there is none.
PreviousCall(k) ==
  IF \E j \in 1..(k - 1) : rl.calls[j].identifier = rl.calls[k].identifier
    THEN CHOOSE j \in 1..(k - 1) :
           /\ rl.calls[j].identifier = rl.calls[k].identifier
           /\ \A i \in (j + 1)..(k - 1) : rl.calls[i].identifier # rl.calls[k].identifier
  ELSE 0

\* C30: between the call that opens a window and the window's resetAt at
\* most `limit` calls are let through; a call let through returns
\* remaining = limit minus the calls let through in the window so far, never
\* negative; a refused call returns remaining = 0 and the resetAt of the
\* window; the first call of an identifier, and the first one after resetAt,
\* opens a window of its own with count 1.
C30_WindowInvariant ==
  rl.pc = "run" =>
    \A k \in 1..Len(rl.calls) :
      LET call == rl.calls[k]
          successes == {j \in SameWindowUpTo(k) : rl.calls[j].success}
          prev == PreviousCall(k)
          fresh == prev = 0 \/ call.at > rl.calls[prev].resetAt
      IN /\ Cardinality(successes) <= rl.limit
         /\ call.at <= call.resetAt
         /\ call.success =>
              /\ call.remaining = rl.limit - Cardinality(successes)
              /\ call.remaining >= 0
         /\ ~call.success =>
              /\ call.remaining = 0
              /\ prev # 0 /\ call.resetAt = rl.calls[prev].resetAt
              /\ Cardinality(successes) = rl.limit
         /\ fresh =>
              /\ call.success
              /\ call.resetAt = call.at + rl.windowMs
              /\ call.remaining = rl.limit - 1
              /\ SameWindowUpTo(k) = {k}
         /\ ~fresh => call.resetAt = rl.calls[prev].resetAt

\* An identifier was refused in a window and let through again after the
\* window's resetAt.
C30_Witness ==
  /\ rl.pc = "run"
  /\ \E i, j \in 1..Len(rl.calls) :
       /\ i < j
       /\ rl.calls[i].identifier = rl.calls[j].identifier
       /\ ~rl.calls[i].success /\ rl.calls[j].success
       /\ rl.calls[j].at > rl.calls[i].resetAt

\* C22: no client has more than 50 requests to /api/auth/* endpoints let
\* through within one window of a minute, whatever their HTTP methods.
C22_AuthLimit ==
  mw.pc = "run" => \A ip \in ClientIps : mw.passed[ip].count <= 50

\* C23: a token cookie in the browser is httpOnly, the one the verify
\* endpoint set for an admin address; no script wrote it.
C23_TokenCookieHttpOnly ==
  jar.pc = "run" /\ jar.cookie.present
    => jar.cookie.httpOnly /\ jar.cookie.value \in {"tokAdmin", "tokAdmin2"}

MatchesMembership(e, main) ==
  /\ e.table_name = "clubs" /\ e.operation = "UPDATE"
  /\ e.actor_address = main.actor_address
  /\ e.record_key = SplitOn(main.record_key, ":")[1]
  /\ Abs(e.created_at - main.created_at) < GROUP_WINDOW_MS

\* C25: a membership event carries at most one sub-event, which is an update
\* of its category's row by the same actor less than a second away; an entry
\* the loop has not reached is marked processed only as the one sub-event of
\* a membership event.
C25_OneSubEvent ==
  /\ \A g \in 1..Len(grouped) :
       grouped[g].main.table_name = "club_memberships"
         => /\ Len(grouped[g].subEvents) <= 1
            /\ \A s \in 1..Len(grouped[g].subEvents) :
                 /\ grouped[g].subEvents[s] \in Range(rawEntries)
                 /\ MatchesMembership(grouped[g].subEvents[s], grouped[g].main)
  /\ \A k \in 1..Len(rawEntries) :
       ( k >= cursor /\ rawEntries[k].id \in processedIds )
         => \E g \in 1..Len(grouped) : grouped[g].subEvents = <<rawEntries[k]>>
  /\ Cardinality(processedIds) <= (cursor - 1) + Len(grouped)

\* A membership event absorbed one of two updates that both match it; the
\* loop has not reached the other, which is not marked processed.
C25_Witness ==
  \E g \in 1..Len(grouped), i, j \in 1..Len(rawEntries) :
    /\ grouped[g].main.table_name = "club_memberships"
    /\ grouped[g].subEvents = <<rawEntries[i]>>
    /\ i < j /\ j >= cursor
    /\ MatchesMembership(rawEntries[j], grouped[g].main)
    /\ rawEntries[j].id \notin processedIds

\* The name a line stands for: the trimmed line, with .eth appended when
\* absent.
NameOfLine(line) == IF EndsWith(line, DotEth) THEN line ELSE line \o DotEth

\* The names of the non-blank lines of a text.
NamesOfText(text) ==
  LET lines == InputLines(text)
  IN [k \in 1..Len(lines) |-> NameOfLine(lines[k])]

AlreadyNormalized(name) == normalizeEnsName(name) = name

C27_ReportedNamesRemovable ==
  ( /\ Done(1) /\ req[1].kind = "scan" /\ req[1].resp.status = 200
    /\ Done(2) /\ req[2].kind = "remove" /\ req[2].resp.status # 500 )
  => /\ req[2].resp.status = 200 /\ req[2].resp.success = "true"
     /\ \A k \in 1..Len(req[2].names) : <<cC1, req[2].names[k]>> \notin memberships

\* The distinct validated names of an add request: its names, normalized.
ValidatedNames(r) == {normalizeEnsName(n) : n \in Range(req[r].names)}

\* C28: on a successful add, added is the number of Membership rows the
\* request created, skipped the number of its validated names that were
\* members already, and the two add up to the number of its distinct
\* validated names.
C28_AddAccounting ==
  \A r \in Reqs :
    ( Done(r) /\ req[r].kind = "add" /\ req[r].resp.status = 200 )
    => /\ req[r].resp.added = Cardinality(req[r].wrote)
       /\ req[r].resp.skipped =
            Cardinality({n \in ValidatedNames(r) : <<req[r].cat, n>> \in memberships0})
       /\ req[r].resp.added + req[r].resp.skipped = Cardinality(ValidatedNames(r))

\* C29: when a call of a transaction helper is over, its client was released
\* exactly once, no transaction is open on it, and if the callback threw,
\* the call threw the callback's error.
C29_TransactionDiscipline ==
  tx.pc = "done"
    => /\ tx.released = 1
       /\ ~tx.open
       /\ tx.callback = "throws" => tx.thrown = "callback"

====
